---- MODULE Spec2Model ----
(***************************************************************************)
(* Clinical agentic control plane: the action pipeline.                    *)
(*                                                                         *)
(*   worker      src/cacp/workers/worker.py       (rails, dedup, retry,    *)
(*                                                 DLQ, promotion, replay) *)
(*   queue       src/cacp/queue/enqueue.py                                 *)
(*   consent     src/cacp/consent.py                                       *)
(*   webhook     src/cacp/api/routes/webhook_github.py                     *)
(*   orchestr.   src/cacp/orchestration/orchestrator.py                    *)
(*                                                                         *)
(* Time is the integer number of seconds on the wall clock (time.time()).  *)
(* One job is processed within one clock reading: the clock advances only  *)
(* between jobs, while workers interleave freely at every Redis operation. *)
(***************************************************************************)
EXTENDS Integers, Sequences, FiniteSets, TLC

VARIABLES
    now,        \* wall clock, seconds
    cfg,        \* Worker.__init__ arguments shared by the worker processes
    queue,      \* Redis list  cacp:actions
    retry,      \* Redis zset  cacp:retry      {[member, score]}
    dlq,        \* Redis list  cacp:dlq
    sent,       \* Redis keys  cacp:sent:<appointment_id>:<channel>  {[appointment_id, channel, exp]}
    rate,       \* Redis zsets cacp:rate:<patient_id>:<channel>      {[patient_id, channel, member]}
    consent,    \* InMemoryConsentStore._records
    events,     \* InMemoryEventStore._events
    wrk,        \* per worker process: position in run_loop and locals
    calls,      \* history: adapter.execute calls
    jobs,       \* history: the jobs taken off the main queue, in order, and the checks run for each
    produced,   \* history: envelopes pushed by enqueue_action, in order
    replays,    \* history: the replay_dlq calls, what each was given and returned
    web,        \* merge webhook: settings, Redis delivery markers, deliveries received
    orch,       \* orchestrator: settings and the process_appointment calls
    plan,       \* signing: the payload handed to sign_payload / verify_signature
    agents,     \* risk scorer, revenue agent and compliance agent: one evaluation
    store,      \* a store under test: InMemoryEventStore, or the calls made on the consent store
    promotions  \* history: the process_retries calls, in the order they started

vars == <<now, cfg, queue, retry, dlq, sent, rate, consent, events, wrk,
          calls, jobs, produced, replays, web, orch, plan, agents, store, promotions>>

-----------------------------------------------------------------------------
(* Bounds of the model *)

NumWorkers == 2
MaxJobs == 2
MaxReplays == 1
MaxDequeues == 3
RateJobs == 3
RetryDequeues == 5
MaxTime == 90000
MaxDeliveries == 3
FilterDeliveries == 2
MaxCalls == 2

(* Program constants *)

DEFAULT_MAX_RETRIES == 3
DEFAULT_RATE_LIMIT == 3
DEFAULT_RATE_WINDOW == 86400
DEFAULT_DEDUP_TTL == 86400
DEFAULT_QUIET_START == 22
DEFAULT_QUIET_END == 8
SECONDS_PER_HOUR == 3600
HOURS_PER_DAY == 24

DEFAULT_BACKOFF == <<60, 300, 900>>

Workers == 1..NumWorkers

NoKey == "<absent>"      \* a key missing from the JSON envelope
None == "<none>"         \* Python None
NoRetryCount == -1       \* "_retry_count" missing from the envelope

Min(a, b) == IF a < b THEN a ELSE b

\* dict.get(key, default)
Get(v, default) == IF v = NoKey THEN default ELSE v

RetryCountOf(action) ==
    IF action.retry_count = NoRetryCount THEN 0 ELSE action.retry_count

-----------------------------------------------------------------------------
(* Envelopes on the queue *)

Envelope(ty, appt, pat, ch, pr) ==
    [action_type |-> ty, appointment_id |-> appt, patient_id |-> pat,
     channel |-> ch, pr_number |-> pr, retry_count |-> NoRetryCount,
     to_number |-> NoKey, message |-> NoKey]

\* the envelope as first enqueued (retry bookkeeping removed)
Origin(action) == [action EXCEPT !.retry_count = NoRetryCount]

\* Worker._execute: aggregate_id
AggregateId(action) ==
    IF Get(action.appointment_id, "") # "" THEN action.appointment_id
    ELSE Get(action.pr_number, "unknown")

-----------------------------------------------------------------------------
(* Redis expiry: a key written with EX ttl at time t is gone from t + ttl *)

Alive(keys, t) == {k \in keys : k.exp > t}

-----------------------------------------------------------------------------
(* Compliance rails (module functions of worker.py) *)

\* InMemoryConsentStore._key: f"{patient_id}:{channel}"
_key(patient_id, channel) == patient_id \o ":" \o channel

NoTime == -1             \* revoked_at = None

\* one entry of _records: the key and its ConsentRecord
ConsentRecord(key, patient_id, channel, granted_at, revoked_at) ==
    [key |-> key, patient_id |-> patient_id, channel |-> channel,
     granted_at |-> granted_at, revoked_at |-> revoked_at]

\* ConsentRecord.is_active
is_active(record) == record.revoked_at = NoTime

\* InMemoryConsentStore.has_consent
has_consent(records, patient_id, channel) ==
    \E r \in records : r.key = _key(patient_id, channel) /\ is_active(r)

\* the rail failing open when the envelope carries no patient_id
_check_consent_fail_open(action, has_store, records) ==
    IF ~has_store THEN None
    ELSE IF Get(action.patient_id, "") = "" THEN None
    ELSE IF ~has_consent(records, action.patient_id, Get(action.channel, "sms"))
         THEN "no_consent"
    ELSE None

\* the rail looking up consent under the empty patient id
_check_consent_empty_id_looked_up(action, has_store, records) ==
    IF ~has_store THEN None
    ELSE IF ~has_consent(records, Get(action.patient_id, ""), Get(action.channel, "sms"))
         THEN "no_consent"
    ELSE None

\* _check_consent: blocking reason or None
_check_consent(action, has_store, records) ==
    IF ~has_store THEN None
    ELSE IF Get(action.patient_id, "") = "" THEN "no_patient_id"
    ELSE IF ~has_consent(records, action.patient_id, Get(action.channel, "sms"))
         THEN "no_consent"
    ELSE None

\* datetime.now(ZoneInfo(tz)).hour, the clinic's zone taken as UTC
LocalHour(t) == (t \div SECONDS_PER_HOUR) % HOURS_PER_DAY

\* a window that includes its end hour
_check_quiet_hours_closed(quiet_start, quiet_end, hour) ==
    IF quiet_start <= quiet_end
    THEN IF quiet_start <= hour /\ hour <= quiet_end THEN "quiet_hours" ELSE None
    ELSE IF hour >= quiet_start \/ hour <= quiet_end THEN "quiet_hours" ELSE None

\* _check_quiet_hours
_check_quiet_hours(quiet_start, quiet_end, hour) ==
    IF quiet_start <= quiet_end
    THEN IF quiet_start <= hour /\ hour < quiet_end THEN "quiet_hours" ELSE None
    ELSE IF hour >= quiet_start \/ hour < quiet_end THEN "quiet_hours" ELSE None

\* the rate window of one key, as (member, score) pairs; the member is
\* str(now), so the score equals the member
RateKey(zsets, patient_id, channel) ==
    {z \in zsets : z.patient_id = patient_id /\ z.channel = channel}

\* pipeline: ZREMRANGEBYSCORE key 0 now-window; ZCARD key; ZADD key {str(now): now};
\* EXPIRE key window.  Returns the ZCARD reply and the zsets afterwards.
\* (EXPIRE removes the key window seconds after the last ZADD, when every
\* member is already outside the window.)
RatePipeline(zsets, patient_id, channel, t, window) ==
    LET stale == {z \in RateKey(zsets, patient_id, channel) : z.member <= t - window}
        kept  == zsets \ stale
    IN  [count |-> Cardinality(RateKey(kept, patient_id, channel)),
         zsets |-> kept \cup {[patient_id |-> patient_id, channel |-> channel,
                               member |-> t]}]

\* _check_rate_limit: [reason, zsets]
_check_rate_limit(action, zsets, limit, window, t) ==
    IF Get(action.patient_id, "") = "" \/ limit <= 0
    THEN [reason |-> None, zsets |-> zsets]
    ELSE LET r == RatePipeline(zsets, action.patient_id,
                               Get(action.channel, "sms"), t, window)
         IN  [reason |-> IF r.count >= limit THEN "rate_limited" ELSE None,
              zsets |-> r.zsets]

\* the marker written without NX: the SET always succeeds
_check_dedup_without_nx(action, keys, ttl, t) ==
    IF Get(action.appointment_id, "") = ""
    THEN [reason |-> None, keys |-> keys]
    ELSE [reason |-> None,
          keys |-> {k \in Alive(keys, t) :
                       ~(k.appointment_id = action.appointment_id
                         /\ k.channel = Get(action.channel, "sms"))}
                   \cup {[appointment_id |-> action.appointment_id,
                          channel |-> Get(action.channel, "sms"), exp |-> t + ttl]}]

\* dedup keyed on the empty appointment id as on any other
_check_dedup_keyed_without_id(action, keys, ttl, t) ==
    LET appointment_id == Get(action.appointment_id, "")
        ch == Get(action.channel, "sms")
        held == \E k \in Alive(keys, t) :
                   k.appointment_id = appointment_id /\ k.channel = ch
    IN  IF held
        THEN [reason |-> "duplicate_action", keys |-> keys]
        ELSE [reason |-> None,
              keys |-> Alive(keys, t) \cup
                       {[appointment_id |-> appointment_id,
                         channel |-> ch, exp |-> t + ttl]}]

\* _check_dedup: SET cacp:sent:<appointment_id>:<channel> 1 NX EX ttl
\* Returns [reason, keys]
_check_dedup(action, keys, ttl, t) ==
    IF Get(action.appointment_id, "") = ""
    THEN [reason |-> None, keys |-> keys]
    ELSE LET ch == Get(action.channel, "sms")
             held == \E k \in Alive(keys, t) :
                        k.appointment_id = action.appointment_id /\ k.channel = ch
         IN  IF held
             THEN [reason |-> "duplicate_action", keys |-> keys]
             ELSE [reason |-> None,
                   keys |-> Alive(keys, t) \cup
                            {[appointment_id |-> action.appointment_id,
                              channel |-> ch, exp |-> t + ttl]}]

-----------------------------------------------------------------------------
(* Events *)

Event(aggregate_id, event_type, payload, job) ==
    [aggregate_id |-> aggregate_id, event_type |-> event_type,
     payload |-> payload, created_at |-> now, job |-> job]

\* Worker._emit: append unless no event store is configured
_emit(log, has_store, event) == IF has_store THEN Append(log, event) ELSE log

\* Worker._emit: an append that raises is logged and dropped
WorkerEmit(log, event) ==
    IF event.event_type \in cfg.append_raises THEN log
    ELSE _emit(log, cfg.event_store, event)

\* {**action, "reason": reason}
WithReason(action, reason) == [action |-> action, reason |-> reason]

-----------------------------------------------------------------------------
(* Retry / DLQ *)

\* ZADD cacp:retry {member: score}: one entry per member, the score replaced
ZAdd(zset, member, score) ==
    {z \in zset : z.member # member} \cup {[member |-> member, score |-> score]}

\* a worker that the failed append of action_failed stops before the decision
_schedule_retry_unless_append_raised(action, aggregate_id, job, zset, dead, log) ==
    LET attempt == RetryCountOf(action) + 1
        counted == [action EXCEPT !.retry_count = attempt]
    IN  IF "action_failed" \in cfg.append_raises
        THEN [retry |-> zset, dlq |-> dead, events |-> log]
        ELSE IF attempt > cfg.max_retries
        THEN [retry |-> zset,
              dlq |-> Append(dead, counted),
              events |-> WorkerEmit(log,
                               Event(aggregate_id, "action_dead_lettered",
                                     WithReason(counted, "max_retries_exceeded"), job))]
        ELSE LET backoff_idx == Min(attempt - 1, Len(cfg.backoff) - 1)
                 delay == cfg.backoff[backoff_idx + 1]
                 fire_at == now + delay
             IN  [retry |-> ZAdd(zset, counted, fire_at),
                  dlq |-> dead,
                  events |-> WorkerEmit(log,
                                   Event(aggregate_id, "action_retry_scheduled",
                                         [attempt |-> attempt, delay_seconds |-> delay,
                                          appointment_id |-> action.appointment_id,
                                          action |-> counted], job))]

\* a decision that dead-letters one attempt early
_schedule_retry_one_early(action, aggregate_id, job, zset, dead, log) ==
    LET attempt == RetryCountOf(action) + 1
        counted == [action EXCEPT !.retry_count = attempt]
    IN  IF attempt >= cfg.max_retries
        THEN [retry |-> zset,
              dlq |-> Append(dead, counted),
              events |-> WorkerEmit(log,
                               Event(aggregate_id, "action_dead_lettered",
                                     WithReason(counted, "max_retries_exceeded"), job))]
        ELSE LET backoff_idx == Min(attempt - 1, Len(cfg.backoff) - 1)
                 delay == cfg.backoff[backoff_idx + 1]
                 fire_at == now + delay
             IN  [retry |-> ZAdd(zset, counted, fire_at),
                  dlq |-> dead,
                  events |-> WorkerEmit(log,
                                   Event(aggregate_id, "action_retry_scheduled",
                                         [attempt |-> attempt, delay_seconds |-> delay,
                                          appointment_id |-> action.appointment_id,
                                          action |-> counted], job))]

\* Worker._schedule_retry: [retry, dlq, events]
_schedule_retry(action, aggregate_id, job, zset, dead, log) ==
    LET attempt == RetryCountOf(action) + 1
        counted == [action EXCEPT !.retry_count = attempt]
    IN  IF attempt > cfg.max_retries
        THEN [retry |-> zset,
              dlq |-> Append(dead, counted),
              events |-> WorkerEmit(log,
                               Event(aggregate_id, "action_dead_lettered",
                                     WithReason(counted, "max_retries_exceeded"), job))]
        ELSE LET backoff_idx == Min(attempt - 1, Len(cfg.backoff) - 1)
                 delay == cfg.backoff[backoff_idx + 1]
                 fire_at == now + delay
             IN  [retry |-> ZAdd(zset, counted, fire_at),
                  dlq |-> dead,
                  events |-> WorkerEmit(log,
                                   Event(aggregate_id, "action_retry_scheduled",
                                         [attempt |-> attempt, delay_seconds |-> delay,
                                          appointment_id |-> action.appointment_id,
                                          action |-> counted], job))]

-----------------------------------------------------------------------------
(* Worker processes *)

\* the worker holds no action
NoAction == Envelope(None, None, None, None, None)

Idle == [pc |-> "idle", action |-> NoAction, job |-> 0, items |-> <<>>]

\* one check of the pipeline as evaluated for a job, and what it returned
Checked(check, reason) == [check |-> check, reason |-> reason]

\* no worker is inside a job or a promotion: each is at the top of its
\* loop or waiting in BLPOP
AllIdle == \A w \in Workers : wrk[w].pc \in {"idle", "blpop"}

\* an SMS adapter that raises on missing fields
TwilioSmsAdapter_execute_raising(action, reply) ==
    IF Get(action.to_number, "") = "" \/ Get(action.message, "") = "" THEN "raise"
    ELSE IF reply = "sent" THEN "ok"
    ELSE "TWILIO_ERROR"

\* TwilioSmsAdapter.execute, given what messages.create does ("sent" or
\* "exception"): "ok" for a result with success = True, else the error_code
\* of the result; it never raises
TwilioSmsAdapter_execute(action, reply) ==
    IF Get(action.to_number, "") = "" \/ Get(action.message, "") = "" THEN "MISSING_PARAMS"
    ELSE IF reply = "sent" THEN "ok"
    ELSE "TWILIO_ERROR"

\* {**action, **result}
WithResult(action, result) == [action |-> action, reason |-> None, result |-> result]

\* what the adapter does on this call: "raise", or what it returns ("ok", or
\* the error_code of a failure result)
AdapterOutcomes(action) ==
    CASE cfg.adapter = "up" -> {"ok"}
      [] cfg.adapter = "twilio" ->
            {TwilioSmsAdapter_execute(action, reply) : reply \in {"sent", "exception"}}
      [] cfg.adapter = "down" -> {"raise"}
      [] cfg.adapter = "fail_first" ->
            IF \E c \in calls : Origin(c.action) = Origin(action)
            THEN {"ok"} ELSE {"raise"}
      [] OTHER -> {"ok", "raise"}

\* a producer that pushes at the left end
Enqueue_left(e) ==
    /\ Len(produced) < cfg.max_jobs
    /\ queue' = <<e>> \o queue
    /\ produced' = Append(produced, e)
    /\ UNCHANGED <<web, orch, plan, agents, store>>
    /\ UNCHANGED <<now, cfg, promotions, retry, dlq, sent, rate, consent, events, wrk,
                   calls, jobs, replays>>

\* enqueue_action: RPUSH cacp:actions
Enqueue(e) ==
    /\ Len(produced) < cfg.max_jobs
    /\ queue' = Append(queue, e)
    /\ produced' = Append(produced, e)
    /\ UNCHANGED <<web, orch, plan, agents, store>>
    /\ UNCHANGED <<now, cfg, promotions, retry, dlq, sent, rate, consent, events, wrk,
                   calls, jobs, replays>>

\* run_once / run_loop: LPOP / BLPOP cacp:actions, json.loads; then _execute:
\* adapter resolution and _apply_rails step 1 (consent)
Dequeue(w) ==
    /\ wrk[w].pc = (IF cfg.loop THEN "blpop" ELSE "idle")
    /\ queue # <<>>
    /\ Len(jobs) < cfg.max_dequeues
    /\ queue' = Tail(queue)
    /\ LET action == Head(queue)
           job == Len(jobs) + 1
           agg == AggregateId(action)
           reason == _check_consent(action, cfg.consent_store, consent)
           seen == IF ~cfg.consent_store THEN "no_store"
                   ELSE IF has_consent(consent, Get(action.patient_id, ""),
                                           Get(action.channel, "sms"))
                        THEN "active" ELSE "inactive"
           resolved == Checked("adapter", IF action.action_type \notin cfg.adapters
                                          THEN "no_adapter" ELSE None)
       IN  /\ jobs' = Append(jobs, [action |-> action, at |-> now, consent_seen |-> seen,
                                    checked |-> IF action.action_type \notin cfg.adapters
                                                THEN <<resolved>>
                                                ELSE <<resolved, Checked("consent", reason)>>])
           /\ IF action.action_type \notin cfg.adapters
              THEN /\ events' = WorkerEmit(events,
                                      Event(agg, "action_failed",
                                            WithReason(action, "no_adapter"), job))
                   /\ wrk' = [wrk EXCEPT ![w] = Idle]
              ELSE IF reason # None
              THEN /\ events' = WorkerEmit(events,
                                      Event(agg, "action_blocked",
                                            WithReason(action, reason), job))
                   /\ wrk' = [wrk EXCEPT ![w] = Idle]
              ELSE /\ events' = events
                   /\ wrk' = [wrk EXCEPT ![w] = [Idle EXCEPT !.pc = "rails",
                                                             !.action = action,
                                                             !.job = job]]
    /\ UNCHANGED <<web, orch, plan, agents, store>>
    /\ UNCHANGED <<now, cfg, promotions, retry, dlq, sent, rate, consent,
                   calls, produced, replays>>

\* the rails with the attempt counted in the rate window although the quiet
\* hours block it
_apply_rails_counted_when_quiet(action, zsets, t) ==
    LET quiet == _check_quiet_hours(cfg.quiet_start, cfg.quiet_end, LocalHour(t))
        rl == _check_rate_limit(action, zsets, cfg.rate_limit, cfg.rate_window, t)
    IN  IF quiet # None
        THEN [reason |-> quiet, zsets |-> rl.zsets,
              checked |-> <<Checked("quiet_hours", quiet)>>]
        ELSE [reason |-> rl.reason, zsets |-> rl.zsets,
              checked |-> <<Checked("quiet_hours", quiet), Checked("rate_limit", rl.reason)>>]

\* the rails with the rate limit evaluated before the quiet hours
_apply_rails_rate_first(action, zsets, t) ==
    LET quiet == _check_quiet_hours(cfg.quiet_start, cfg.quiet_end, LocalHour(t))
        rl == _check_rate_limit(action, zsets, cfg.rate_limit, cfg.rate_window, t)
    IN  IF rl.reason # None
        THEN [reason |-> rl.reason, zsets |-> rl.zsets,
              checked |-> <<Checked("rate_limit", rl.reason)>>]
        ELSE [reason |-> quiet, zsets |-> rl.zsets,
              checked |-> <<Checked("rate_limit", rl.reason), Checked("quiet_hours", quiet)>>]

\* _apply_rails steps 2 and 3 (step 1, consent, is taken with the dequeue):
\* quiet hours, then rate limit: [reason, zsets, checked]
_apply_rails(action, zsets, t) ==
    LET quiet == _check_quiet_hours(cfg.quiet_start, cfg.quiet_end, LocalHour(t))
        rl == _check_rate_limit(action, zsets, cfg.rate_limit, cfg.rate_window, t)
    IN  IF quiet # None
        THEN [reason |-> quiet, zsets |-> zsets,
              checked |-> <<Checked("quiet_hours", quiet)>>]
        ELSE [reason |-> rl.reason, zsets |-> rl.zsets,
              checked |-> <<Checked("quiet_hours", quiet), Checked("rate_limit", rl.reason)>>]

\* _execute: the rails after consent; a reason blocks the action
Rails(w) ==
    /\ wrk[w].pc = "rails"
    /\ LET action == wrk[w].action
           rails == _apply_rails(action, rate, now)
       IN  /\ rate' = rails.zsets
           /\ jobs' = [jobs EXCEPT ![wrk[w].job].checked = @ \o rails.checked]
           /\ IF rails.reason # None
              THEN /\ events' = WorkerEmit(events,
                                      Event(AggregateId(action), "action_blocked",
                                            WithReason(action, rails.reason), wrk[w].job))
                   /\ wrk' = [wrk EXCEPT ![w] = Idle]
              ELSE /\ events' = events
                   /\ wrk' = [wrk EXCEPT ![w].pc = "dedup"]
    /\ UNCHANGED <<web, orch, plan, agents, store>>
    /\ UNCHANGED <<now, cfg, promotions, queue, retry, dlq, sent, consent,
                   calls, produced, replays>>

\* _execute: dedup per appointment + channel
Dedup(w) ==
    /\ wrk[w].pc = "dedup"
    /\ LET action == wrk[w].action
           d == _check_dedup(action, sent, cfg.dedup_ttl, now)
       IN  /\ sent' = d.keys
           /\ jobs' = [jobs EXCEPT ![wrk[w].job].checked = Append(@, Checked("dedup", d.reason))]
           /\ IF d.reason # None
              THEN /\ events' = WorkerEmit(events,
                                      Event(AggregateId(action), "action_blocked",
                                            WithReason(action, d.reason), wrk[w].job))
                   /\ wrk' = [wrk EXCEPT ![w] = Idle]
              ELSE /\ events' = events
                   /\ wrk' = [wrk EXCEPT ![w].pc = "execute"]
    /\ UNCHANGED <<web, orch, plan, agents, store>>
    /\ UNCHANGED <<now, cfg, promotions, queue, retry, dlq, rate, consent,
                   calls, produced, replays>>

\* _execute: adapter.execute, then action_executed, or action_failed and
\* _schedule_retry
Execute(w) ==
    /\ wrk[w].pc = "execute"
    /\ \E outcome \in AdapterOutcomes(wrk[w].action) :
         LET action == wrk[w].action
             agg == AggregateId(action)
             job == wrk[w].job
         IN  /\ calls' = calls \cup {[job |-> job, action |-> action, at |-> now,
                                     outcome |-> outcome]}
             /\ jobs' = [jobs EXCEPT ![job].checked =
                            Append(@, Checked("adapter_execution",
                                              IF outcome = "raise" THEN "adapter_error" ELSE None))]
             /\ IF outcome # "raise"
                THEN /\ events' = WorkerEmit(events,
                                        Event(agg, "action_executed",
                                              WithResult(action, outcome), job))
                     /\ UNCHANGED <<retry, dlq>>
                ELSE LET failed == WorkerEmit(events,
                                         Event(agg, "action_failed",
                                               WithReason(action, "adapter_error"), job))
                         r == _schedule_retry(action, agg, job, retry, dlq, failed)
                     IN  /\ retry' = r.retry
                         /\ dlq' = r.dlq
                         /\ events' = r.events
    /\ wrk' = [wrk EXCEPT ![w] = Idle]
    /\ UNCHANGED <<web, orch, plan, agents, store>>
    /\ UNCHANGED <<now, cfg, promotions, queue, sent, rate, consent, produced, replays>>

\* a range read that leaves out the members due at this very second
DueOrders_before_now(zset, t) ==
    LET due == {z \in zset : z.score < t}
        n == Cardinality(due)
    IN  {seq \in [1..n -> due] :
            /\ \A i, j \in 1..n : i # j => seq[i] # seq[j]
            /\ \A i, j \in 1..n : i < j => seq[i].score <= seq[j].score}

\* ZRANGEBYSCORE cacp:retry 0 now: the due members by ascending score
DueOrders(zset, t) ==
    LET due == {z \in zset : z.score <= t}
        n == Cardinality(due)
    IN  {seq \in [1..n -> due] :
            /\ \A i, j \in 1..n : i # j => seq[i] # seq[j]
            /\ \A i, j \in 1..n : i < j => seq[i].score <= seq[j].score}

NotReturned == -1        \* the call has not returned yet

\* one process_retries call of a run_loop worker: the clock it read, the
\* retry set and the main queue as it found them, the number of dequeued
\* jobs so far, its counter and the value it returned
Promotion(w, t, zset, main, taken) ==
    [worker |-> w, at |-> t, due |-> {z \in zset : z.score <= t},
     kept |-> {z \in zset : z.score > t}, queue |-> main, jobs |-> taken,
     moved |-> 0, returned |-> NotReturned]

\* the call of the worker that has not returned
OpenPromotion(w) ==
    CHOOSE i \in DOMAIN promotions :
        promotions[i].worker = w /\ promotions[i].returned = NotReturned

\* where a worker continues after process_retries and after a job: run_loop
\* goes on to BLPOP and back to the top of its loop
AfterPromotion == IF cfg.loop THEN [Idle EXCEPT !.pc = "blpop"] ELSE Idle

\* process_retries: now = time.time(), ZRANGEBYSCORE cacp:retry 0 now,
\* return 0 if nothing is due
PromoteRead(w) ==
    /\ wrk[w].pc = "idle"
    /\ cfg.loop \/ \E z \in retry : z.score <= now
    /\ cfg.loop => Len(promotions) < cfg.max_promotions
    /\ \E seq \in DueOrders(retry, now) :
         LET call == Promotion(w, now, retry, queue, Len(jobs))
         IN  IF seq = <<>>
             THEN /\ wrk' = [wrk EXCEPT ![w] = AfterPromotion]
                  /\ promotions' = Append(promotions, [call EXCEPT !.returned = 0])
             ELSE /\ wrk' = [wrk EXCEPT ![w] =
                               [Idle EXCEPT !.pc = "promote",
                                            !.items = [i \in 1..Len(seq) |-> seq[i].member]]]
                  /\ promotions' = IF cfg.loop THEN Append(promotions, call)
                                   ELSE promotions
    /\ UNCHANGED <<web, orch, plan, agents, store>>
    /\ UNCHANGED <<now, cfg, queue, retry, dlq, sent, rate, consent, events,
                   calls, jobs, produced, replays>>

\* process_retries: one turn of the loop, ZREM then RPUSH of the member read
\* and moved += 1; after the last turn, return moved
PromoteMove(w) ==
    /\ wrk[w].pc = "promote"
    /\ LET raw == Head(wrk[w].items)
           rest == Tail(wrk[w].items)
       IN  /\ retry' = {z \in retry : z.member # raw}
           /\ queue' = Append(queue, raw)
           /\ wrk' = [wrk EXCEPT ![w] = IF rest = <<>> THEN AfterPromotion
                                        ELSE [wrk[w] EXCEPT !.items = rest]]
           /\ promotions' =
                 IF cfg.loop
                 THEN LET moved == promotions[OpenPromotion(w)].moved + 1
                      IN  [promotions EXCEPT
                              ![OpenPromotion(w)].moved = moved,
                              ![OpenPromotion(w)].returned =
                                  IF rest = <<>> THEN moved ELSE NotReturned]
                 ELSE promotions
    /\ UNCHANGED <<web, orch, plan, agents, store>>
    /\ UNCHANGED <<now, cfg, dlq, sent, rate, consent, events,
                   calls, jobs, produced, replays>>

\* run_loop: BLPOP timed out on an empty queue, `continue`
BlpopTimeout(w) ==
    /\ cfg.loop
    /\ wrk[w].pc = "blpop"
    /\ queue = <<>>
    /\ wrk' = [wrk EXCEPT ![w] = Idle]
    /\ UNCHANGED <<web, orch, plan, agents, store>>
    /\ UNCHANGED <<now, cfg, promotions, queue, retry, dlq, sent, rate, consent, events,
                   calls, jobs, produced, replays>>

\* the one worker process of the deployment
TheWorker == CHOOSE w \in Workers : \A v \in Workers : w <= v

\* the steps of one run_once call
RunOnceStep ==
    \/ Dequeue(TheWorker)
    \/ Rails(TheWorker)
    \/ Dedup(TheWorker)
    \/ Execute(TheWorker)

\* the steps of one process_retries call
ProcessRetriesStep ==
    \/ PromoteRead(TheWorker)
    \/ PromoteMove(TheWorker)

\* replay_dlq(max_items): the first min(max_items, LLEN) envelopes of the DLQ,
\* re-queued in order with _retry_count = 0
RECURSIVE Replayed_count_kept(_, _)
Replayed_count_kept(dead, n) ==
    IF n = 0 \/ dead = <<>> THEN <<>>
    ELSE <<Head(dead)>> \o Replayed_count_kept(Tail(dead), n - 1)

RECURSIVE Replayed(_, _)
Replayed(dead, n) ==
    IF n = 0 \/ dead = <<>> THEN <<>>
    ELSE <<[Head(dead) EXCEPT !.retry_count = 0]>> \o Replayed(Tail(dead), n - 1)

replay_dlq(max_items) ==
    /\ Len(replays) < MaxReplays
    /\ LET moved == Replayed(dlq, max_items)
       IN  /\ queue' = queue \o moved
           /\ dlq' = SubSeq(dlq, Len(moved) + 1, Len(dlq))
           /\ replays' = Append(replays, [max_items |-> max_items,
                                          returned |-> Len(moved),
                                          left |-> Len(dlq) - Len(moved),
                                          queued |-> Len(queue)])
    /\ UNCHANGED <<web, orch, plan, agents, store>>
    /\ UNCHANGED <<now, cfg, promotions, retry, sent, rate, consent, events, wrk,
                   calls, jobs, produced>>

\* the grant and revoke calls made on a consent store under test
Logged(op, patient_id, channel) ==
    IF store.stage = "consent"
    THEN [store EXCEPT !.history = Append(@, [op |-> op, patient_id |-> patient_id,
                                              channel |-> channel, at |-> now])]
    ELSE store

ConsentCallAllowed ==
    /\ cfg.consent_store
    /\ store.stage = "consent" => Len(store.history) < store.max_calls

\* InMemoryConsentStore.grant: a new record replaces whatever the key held
grant(patient_id, channel) ==
    /\ ConsentCallAllowed
    /\ LET key == _key(patient_id, channel)
       IN  consent' = {r \in consent : r.key # key}
                      \cup {ConsentRecord(key, patient_id, channel, now, NoTime)}
    /\ store' = Logged("grant", patient_id, channel)
    /\ UNCHANGED <<web, orch, plan, agents>>
    /\ UNCHANGED <<now, cfg, promotions, queue, retry, dlq, sent, rate, events, wrk,
                   calls, jobs, produced, replays>>

\* InMemoryConsentStore.revoke: an active record is replaced by its revoked copy
revoke(patient_id, channel) ==
    /\ ConsentCallAllowed
    /\ LET key == _key(patient_id, channel)
       IN  consent' = {IF r.key = key /\ is_active(r)
                       THEN ConsentRecord(key, r.patient_id, r.channel, r.granted_at, now)
                       ELSE r : r \in consent}
    /\ store' = Logged("revoke", patient_id, channel)
    /\ UNCHANGED <<web, orch, plan, agents>>
    /\ UNCHANGED <<now, cfg, promotions, queue, retry, dlq, sent, rate, events, wrk,
                   calls, jobs, produced, replays>>

\* The clock.  It moves to the next instants at which something changes: a
\* retry falls due, a dedup marker expires, a rate entry leaves the window,
\* the quiet window opens or closes.
QuietEdges ==
    IF cfg.quiet_start = cfg.quiet_end THEN {} ELSE {cfg.quiet_start, cfg.quiet_end}

Thresholds ==
    {z.score : z \in retry}
    \cup {k.exp : k \in sent}
    \cup {z.member + cfg.rate_window : z \in rate}
    \cup {m.exp : m \in web.markers}
    \cup {(d * HOURS_PER_DAY + h) * SECONDS_PER_HOUR :
              d \in 0..1, h \in QuietEdges}

Tick ==
    /\ AllIdle
    /\ \A i \in DOMAIN web.log : web.log[i].status # 0
    /\ \E t \in Thresholds :
         /\ t > now
         /\ t <= MaxTime
         /\ now' = t
    /\ sent' = Alive(sent, now')
    /\ web' = [web EXCEPT !.markers = Alive(@, now')]
    /\ UNCHANGED <<plan, agents, store>>
    /\ UNCHANGED <<cfg, promotions, queue, retry, dlq, rate, consent, events, wrk,
                   calls, jobs, produced, replays, orch>>

-----------------------------------------------------------------------------
(* Worker.__init__ arguments, the adapter's behaviour and the envelopes the
   producers push *)

WorkerConfig(consent_store, quiet_start, quiet_end, rate_limit, dedup_ttl, max_retries, adapter, envelopes, max_jobs, max_dequeues) ==
    [adapters |-> {"execute_plan"}, event_store |-> TRUE,
     consent_store |-> consent_store,
     quiet_start |-> quiet_start, quiet_end |-> quiet_end,
     rate_limit |-> rate_limit, rate_window |-> DEFAULT_RATE_WINDOW,
     dedup_ttl |-> dedup_ttl, max_retries |-> max_retries,
     backoff |-> DEFAULT_BACKOFF, adapter |-> adapter,
     envelopes |-> envelopes, max_jobs |-> max_jobs, max_dequeues |-> max_dequeues,
     loop |-> FALSE, max_promotions |-> 0, append_raises |-> {}]

\* the application state of create_app / lifespan: settings and Redis client of
\* the merge webhook, the deliveries it may receive, and which of its two
\* writes ("append" to the event store, "rpush" to the queue) may raise
WebhookApp(secret, has_redis, requests, max_deliveries) ==
    [secret |-> secret, redis |-> has_redis, markers |-> {}, log |-> <<>>,
     requests |-> requests, max_deliveries |-> max_deliveries, raises |-> {}]

\* Orchestrator.__init__ and its settings: PR creator, GitHub token, HMAC
\* secret, event store and the sets of appends it may fail during one call,
\* whether the compliance agent has an OPA client and what the policy server
\* may answer, and the appointments it may be called with
OrchestratorApp(has_github, has_hmac_secret, appointments, max_calls) ==
    [github_pr |-> has_github, github_token |-> has_github,
     hmac_secret |-> IF has_hmac_secret THEN "hmac-secret" ELSE "",
     event_store |-> TRUE, losses |-> {{}},
     opa |-> FALSE, responses |-> {},
     calls |-> <<>>,
     appointments |-> appointments, max_calls |-> max_calls]

\* nothing handed to the signing functions, the agents or a standalone store
NoPlan == [stage |-> "none"]
NoAgents == [stage |-> "none"]
NoStore == [stage |-> "none"]

InitState(configs, webs, orchs, plans, evaluations, stores) ==
    /\ now = 0
    /\ cfg \in configs
    /\ web \in webs
    /\ orch \in orchs
    /\ queue = <<>>
    /\ retry = {}
    /\ dlq = <<>>
    /\ sent = {}
    /\ rate = {}
    /\ consent = {}
    /\ events = <<>>
    /\ wrk = [w \in Workers |-> Idle]
    /\ calls = {}
    /\ jobs = <<>>
    /\ produced = <<>>
    /\ replays = <<>>
    /\ promotions = <<>>
    /\ plan \in plans
    /\ agents \in evaluations
    /\ store \in stores

\* the three applications, no library function under test
InitApps(configs, webs, orchs) ==
    InitState(configs, webs, orchs, {NoPlan}, {NoAgents}, {NoStore})

\* a deployment of worker processes only
InitWith(configs) == InitApps(configs, {WebhookApp("", FALSE, {}, 0)}, {OrchestratorApp(FALSE, FALSE, {}, 0)})

Produce == \E e \in cfg.envelopes : Enqueue(e)

WorkerStep ==
    \E w \in Workers :
        \/ Dequeue(w)
        \/ Rails(w)
        \/ Dedup(w)
        \/ Execute(w)
        \/ PromoteRead(w)
        \/ PromoteMove(w)

-----------------------------------------------------------------------------
(* Dedup: duplicate jobs of one appointment and channel, an adapter that may
   fail, retries, and dedup markers that expire before or after the first
   backoff delay *)

\* a short dedup TTL, below the first backoff delay
SHORT_DEDUP_TTL == 30

\* the envelope of the unit tests (_action())
TestAction == Envelope("execute_plan", "APT-100", "PAT-001", "sms", NoKey)

DedupConfigs ==
    { WorkerConfig(FALSE, 0, 0, DEFAULT_RATE_LIMIT, ttl, 1, "flaky",
                   {TestAction}, MaxJobs, MaxDequeues) : ttl \in {SHORT_DEDUP_TTL, DEFAULT_DEDUP_TTL} }

Init == InitWith(DedupConfigs)

Next ==
    \/ Produce
    \/ WorkerStep
    \/ Tick

Spec == Init /\ [][Next]_vars

EventsOfType(ty) == {i \in DOMAIN events : events[i].event_type = ty}

\* the (appointment_id, channel) an event's action is deduplicated on
DedupKeyOf(e) ==
    <<Get(e.payload.action.appointment_id, ""), Get(e.payload.action.channel, "sms")>>

\* C1: for every (appointment_id, channel) with an appointment id, two
\* action_executed events are never emitted within the dedup TTL of each other:
\* the second is emitted only once the marker taken by the first has expired.
C1_DedupAtMostOnce ==
    \A i, j \in EventsOfType("action_executed") :
        (/\ i < j
         /\ DedupKeyOf(events[i]) = DedupKeyOf(events[j])
         /\ DedupKeyOf(events[i])[1] # "")
        => events[j].created_at >= events[i].created_at + cfg.dedup_ttl

\* an executed action, then a second job of the same appointment and channel
\* blocked as duplicate_action
C1_Witness ==
    \E i \in EventsOfType("action_executed"), j \in EventsOfType("action_blocked") :
        /\ i < j
        /\ events[j].payload.reason = "duplicate_action"
        /\ DedupKeyOf(events[i]) = DedupKeyOf(events[j])

-----------------------------------------------------------------------------
(* Consent rail: a consent store is configured, consent is granted and
   revoked while jobs are processed *)

\* the envelope the merge webhook enqueues: no patient_id, no channel
WebhookAction == Envelope("execute_plan", "", NoKey, NoKey, "42")

\* an action type no adapter is registered for
FaxAction == Envelope("send_fax", "APT-100", "PAT-001", "sms", NoKey)

ConsentConfigs ==
    { WorkerConfig(TRUE, 0, 0, DEFAULT_RATE_LIMIT, DEFAULT_DEDUP_TTL,
                   DEFAULT_MAX_RETRIES, "flaky",
                   {TestAction, WebhookAction, FaxAction}, MaxJobs, MaxDequeues) }

InitConsent == InitWith(ConsentConfigs)

NextConsent ==
    \/ Produce
    \/ \E w \in Workers : Dequeue(w) \/ Rails(w) \/ Dedup(w) \/ Execute(w)
    \/ grant("PAT-001", "sms")
    \/ revoke("PAT-001", "sms")

SpecConsent == InitConsent /\ [][NextConsent]_vars

EventsOfJob(j) == {i \in DOMAIN events : events[i].job = j}

\* C2: with a consent store configured, the adapter is called only for jobs
\* whose consent check found active consent for (patient_id, channel); a job
\* whose check found none produces exactly one event, action_blocked with
\* reason no_consent (no_patient_id when the patient_id is empty), and no
\* adapter call.
C2_ConsentRail ==
    cfg.consent_store =>
        /\ \A c \in calls : jobs[c.job].consent_seen = "active"
        /\ \A j \in DOMAIN jobs :
              (/\ jobs[j].action.action_type \in cfg.adapters
               /\ jobs[j].consent_seen = "inactive")
              => /\ ~ \E c \in calls : c.job = j
                 /\ \E i \in EventsOfJob(j) :
                       /\ EventsOfJob(j) = {i}
                       /\ events[i].event_type = "action_blocked"
                       /\ events[i].payload.reason =
                             IF Get(jobs[j].action.patient_id, "") = ""
                             THEN "no_patient_id" ELSE "no_consent"

\* one job blocked for lack of consent and, once consent is granted, the
\* adapter called for another
C2_Witness ==
    /\ cfg.consent_store
    /\ \E i \in EventsOfType("action_blocked") : events[i].payload.reason = "no_consent"
    /\ \E c \in calls : jobs[c.job].consent_seen = "active"

-----------------------------------------------------------------------------
(* Rate limit: limit 2, three appointments of one patient on one channel *)

RateConfigs ==
    { WorkerConfig(FALSE, 0, 0, 2, DEFAULT_DEDUP_TTL, DEFAULT_MAX_RETRIES, "up",
                   { Envelope("execute_plan", a, "PAT-001", "sms", NoKey) :
                        a \in {"APT-100", "APT-200", "APT-300"} },
                   RateJobs, RateJobs) }

InitRate == InitWith(RateConfigs)

NextRate ==
    \/ Produce
    \/ \E w \in Workers : Dequeue(w) \/ Rails(w) \/ Dedup(w) \/ Execute(w)
    \/ Tick

SpecRate == InitRate /\ [][NextRate]_vars

\* the (patient_id, channel) an event's action is rate-limited on
RateKeyOf(e) ==
    <<Get(e.payload.action.patient_id, ""), Get(e.payload.action.channel, "sms")>>

\* C3: with limit L > 0 and window W, every interval of W seconds holds at
\* most L action_executed events of one (patient_id, channel) with a patient id.
C3_RateLimitClaim ==
    cfg.rate_limit > 0 =>
        \A i \in EventsOfType("action_executed") :
            RateKeyOf(events[i])[1] # "" =>
                Cardinality({j \in EventsOfType("action_executed") :
                                /\ RateKeyOf(events[j]) = RateKeyOf(events[i])
                                /\ events[j].created_at <= events[i].created_at
                                /\ events[j].created_at > events[i].created_at - cfg.rate_window})
                    <= cfg.rate_limit

-----------------------------------------------------------------------------
(* Retry and DLQ: one enqueued action and an adapter that fails *)

RetryConfigs ==
    { WorkerConfig(FALSE, 0, 0, DEFAULT_RATE_LIMIT, DEFAULT_DEDUP_TTL,
                   DEFAULT_MAX_RETRIES, "down", {TestAction}, 1, RetryDequeues),
      WorkerConfig(FALSE, 0, 0, DEFAULT_RATE_LIMIT, DEFAULT_DEDUP_TTL,
                   DEFAULT_MAX_RETRIES, "fail_first", {TestAction}, 1, RetryDequeues),
      WorkerConfig(FALSE, 0, 0, DEFAULT_RATE_LIMIT, DEFAULT_DEDUP_TTL,
                   2, "down", {WebhookAction}, 1, RetryDequeues) }

InitRetry == InitWith(RetryConfigs)

NextRetry ==
    \/ Produce
    \/ WorkerStep
    \/ Tick

SpecRetry == InitRetry /\ [][NextRetry]_vars

\* the action was enqueued and nothing of it is left to process: the main
\* queue and the retry set are empty and every worker is back at its dequeue
Settled ==
    /\ produced # <<>>
    /\ queue = <<>>
    /\ retry = {}
    /\ AllIdle

RECURSIVE SelectType(_, _)
SelectType(log, ty) ==
    IF log = <<>> THEN <<>>
    ELSE IF Head(log).event_type = ty
         THEN <<Head(log)>> \o SelectType(Tail(log), ty)
         ELSE SelectType(Tail(log), ty)

RetryDelays ==
    LET scheduled == SelectType(events, "action_retry_scheduled")
    IN  [i \in DOMAIN scheduled |-> scheduled[i].payload.delay_seconds]

\* C4: one enqueued test action, the adapter raising on every call,
\* max_retries = 3, backoff 60/300/900: once the workers have run it to the
\* end there are three action_retry_scheduled events with delays 60, 300, 900
\* in that order, then one action_dead_lettered, and the envelope is in the DLQ.
C4_RetryThenDlqClaim ==
    (/\ cfg.adapter = "down"
     /\ cfg.max_retries = DEFAULT_MAX_RETRIES
     /\ Settled)
    => /\ RetryDelays = DEFAULT_BACKOFF
       /\ Cardinality(EventsOfType("action_dead_lettered")) = 1
       /\ \A i \in EventsOfType("action_retry_scheduled"),
             j \in EventsOfType("action_dead_lettered") : i < j
       /\ Len(dlq) = 1
       /\ Origin(dlq[1]) = TestAction

\* C5: the adapter raises on the first attempt only: once the backoff has
\* elapsed and the envelope was promoted and processed, the action has an
\* action_executed event.
C5_TransientRetriedClaim ==
    (cfg.adapter = "fail_first" /\ Settled)
    => EventsOfType("action_executed") # {}

\* C6: a single action has at most max_retries + 1 action_retry_scheduled
\* events, and none after its action_dead_lettered event unless the DLQ was
\* replayed.
C6_RetryBoundClaim ==
    Len(produced) = 1 =>
        /\ Cardinality(EventsOfType("action_retry_scheduled")) <= cfg.max_retries + 1
        /\ replays = <<>> =>
              \A i \in EventsOfType("action_dead_lettered"),
                 j \in EventsOfType("action_retry_scheduled") : j < i

-----------------------------------------------------------------------------
(* Merge webhook: POST /webhook/github (api/routes/webhook_github.py) *)

EXPECTED_REPO == "clinic-gitops-config"
IDEMPOTENCY_TTL == 86400

\* HMAC-SHA256(secret, body).hexdigest(): determined by the key and the message
HmacSha256(secret, body) == [key |-> secret, msg |-> body]

\* an X-Hub-Signature-256 header: a prefix and a digest
SignatureHeader(prefix, secret, body) ==
    [prefix |-> prefix, digest |-> HmacSha256(secret, body)]

_verify_signature_prefix_only(payload_body, secret, signature_header) ==
    signature_header.prefix = "sha256="

_verify_signature(payload_body, secret, signature_header) ==
    IF signature_header.prefix # "sha256=" THEN FALSE
    ELSE signature_header = SignatureHeader("sha256=", secret, payload_body)

\* the pull_request object of a payload: title as its segments between
\* em-dashes, body as its lines, each line as the stripped, lower-cased text
\* before its first colon (key) and the stripped text after it (value)
PullRequest(merged, title, body) ==
    [merged |-> merged, number |-> "42", merge_commit_sha |-> "abc123",
     title |-> title, body |-> body]

\* payload.get("pull_request", {})
NoPullRequest ==
    [merged |-> NoKey, number |-> NoKey, merge_commit_sha |-> NoKey,
     title |-> <<>>, body |-> <<>>]

\* a request body: json is "object", "array" (valid JSON, not an object) or
\* "invalid" (json.loads raises)
Body(json, action, pull_request, repository) ==
    [json |-> json, action |-> action, pull_request |-> pull_request,
     repository |-> repository]

Truthy(v) == v = "true"

_extract_appointment_id(title, body) ==
    LET hits == {i \in DOMAIN body : body[i].key = "appointment_id"}
    IN  IF hits # {}
        THEN body[CHOOSE i \in hits : \A k \in hits : i <= k].value
        ELSE IF Len(title) > 1 THEN title[Len(title)]
        ELSE ""

\* steps 4 and 5 of github_webhook: the reason a verified delivery is ignored,
\* None if it is not, "raise" where payload.get fails on a non-object
filter_without_repo(x_github_event, payload) ==
    IF x_github_event # "pull_request" THEN "event_type"
    ELSE IF payload.json # "object" THEN "raise"
    ELSE IF Get(payload.action, "") # "closed"
            \/ ~Truthy(Get(payload.pull_request.merged, "false"))
         THEN "not_merged"
    ELSE None

filter(x_github_event, payload) ==
    IF x_github_event # "pull_request" THEN "event_type"
    ELSE IF payload.json # "object" THEN "raise"
    ELSE IF Get(payload.action, "") # "closed"
            \/ ~Truthy(Get(payload.pull_request.merged, "false"))
         THEN "not_merged"
    ELSE IF Get(payload.repository, "") # EXPECTED_REPO THEN "repo"
    ELSE None

\* step 3 of github_webhook: SET cacp:webhook:delivery:<id> 1 NX EX 86400,
\* skipped without a Redis client or a delivery id
idempotency_gate_without_nx(markers, has_redis, x_github_delivery, t) ==
    IF has_redis /\ x_github_delivery # ""
    THEN [was_new |-> TRUE, duplicate |-> FALSE,
          markers |-> {m \in markers : m.id # x_github_delivery}
                      \cup {[id |-> x_github_delivery, exp |-> t + IDEMPOTENCY_TTL]}]
    ELSE [was_new |-> FALSE, duplicate |-> FALSE, markers |-> markers]

\* the gate applied to a request without a delivery id as well
idempotency_gate_without_id_check(markers, has_redis, x_github_delivery, t) ==
    IF has_redis
    THEN IF \E m \in Alive(markers, t) : m.id = x_github_delivery
         THEN [was_new |-> FALSE, duplicate |-> TRUE, markers |-> markers]
         ELSE [was_new |-> TRUE, duplicate |-> FALSE,
               markers |-> {m \in markers : m.id # x_github_delivery}
                           \cup {[id |-> x_github_delivery, exp |-> t + IDEMPOTENCY_TTL]}]
    ELSE [was_new |-> FALSE, duplicate |-> FALSE, markers |-> markers]

idempotency_gate(markers, has_redis, x_github_delivery, t) ==
    IF has_redis /\ x_github_delivery # ""
    THEN IF \E m \in Alive(markers, t) : m.id = x_github_delivery
         THEN [was_new |-> FALSE, duplicate |-> TRUE, markers |-> markers]
         ELSE [was_new |-> TRUE, duplicate |-> FALSE,
               markers |-> {m \in markers : m.id # x_github_delivery}
                           \cup {[id |-> x_github_delivery, exp |-> t + IDEMPOTENCY_TTL]}]
    ELSE [was_new |-> FALSE, duplicate |-> FALSE, markers |-> markers]

Request(x_github_event, x_hub_signature_256, x_github_delivery, body) ==
    [event |-> x_github_event, signature |-> x_hub_signature_256,
     delivery |-> x_github_delivery, body |-> body]

\* one delivery: the request, when it was received and under which secret,
\* the response (status 0 while the handler runs), whether it set the marker
\* and whether it pushed a job
Delivery(req, status, result, was_new) ==
    [req |-> req, at |-> now, secret |-> web.secret, status |-> status,
     result |-> result, was_new |-> was_new, pushed |-> FALSE]

InFlight == {i \in DOMAIN web.log : web.log[i].status = 0}

\* github_webhook, steps 1 to 3: secret, signature, JSON, idempotency gate
github_webhook_receive(r) ==
    /\ Len(web.log) < web.max_deliveries
    /\ LET gate == idempotency_gate(web.markers, web.redis, r.delivery, now)
           reply ==
               IF web.secret = "" THEN Delivery(r, 503, "error", FALSE)
               ELSE IF ~_verify_signature(r.body, web.secret, r.signature)
                    THEN Delivery(r, 401, "error", FALSE)
               ELSE IF r.body.json = "invalid" THEN Delivery(r, 400, "error", FALSE)
               ELSE IF gate.duplicate THEN Delivery(r, 200, "duplicate", FALSE)
               ELSE Delivery(r, 0, None, gate.was_new)
       IN  web' = [web EXCEPT !.log = Append(@, reply),
                              !.markers = IF reply.status = 0 THEN gate.markers ELSE @]
    /\ UNCHANGED <<plan, agents, store>>
    /\ UNCHANGED <<now, cfg, promotions, queue, retry, dlq, sent, rate, consent, events, wrk,
                   calls, jobs, produced, replays, orch>>

\* github_webhook, steps 4 to 9: filter, pr_merged event, enqueue, response
github_webhook_process(i) ==
    /\ i \in InFlight
    /\ LET r == web.log[i].req
           pr == r.body.pull_request
           ignored == filter(r.event, r.body)
           appointment_id == _extract_appointment_id(pr.title, pr.body)
           pr_number == Get(pr.number, "0")
       IN  IF ignored = "raise"
           THEN /\ web' = [web EXCEPT !.log[i].status = 500, !.log[i].result = "error"]
                /\ UNCHANGED <<events, queue>>
           ELSE IF ignored # None
           THEN /\ web' = [web EXCEPT !.log[i].status = 202, !.log[i].result = "ignored"]
                /\ UNCHANGED <<events, queue>>
           ELSE \E fault \in {None} \cup web.raises :
                LET pr_merged ==
                        Event(IF appointment_id # "" THEN appointment_id
                              ELSE "pr-" \o pr_number,
                              "pr_merged",
                              [pr_number |-> pr_number,
                               merge_commit_sha |-> Get(pr.merge_commit_sha, ""),
                               appointment_id |-> appointment_id,
                               repo |-> r.body.repository], i)
                    pushed == fault = None /\ web.redis
                IN  /\ events' = IF fault = "append" THEN events
                                  ELSE Append(events, pr_merged)
                    /\ queue' = IF pushed
                                THEN Append(queue, Envelope("execute_plan", appointment_id,
                                                            NoKey, NoKey, pr_number))
                                ELSE queue
                    /\ web' = IF fault = None \/ (fault = "rpush" /\ ~web.redis)
                              THEN [web EXCEPT !.log[i].status = 202,
                                               !.log[i].result = "accepted",
                                               !.log[i].pushed = pushed]
                              ELSE [web EXCEPT !.log[i].status = 500,
                                               !.log[i].result = "error"]
    /\ UNCHANGED <<plan, agents, store>>
    /\ UNCHANGED <<now, cfg, promotions, retry, dlq, sent, rate, consent, wrk,
                   calls, jobs, produced, replays, orch>>

WEBHOOK_SECRET == "whsec"

\* the service is restarted with CACP_GITHUB_WEBHOOK_SECRET set
configure_secret ==
    /\ web.secret = ""
    /\ InFlight = {}
    /\ web' = [web EXCEPT !.secret = WEBHOOK_SECRET]
    /\ UNCHANGED <<plan, agents, store>>
    /\ UNCHANGED <<now, cfg, promotions, queue, retry, dlq, sent, rate, consent, events, wrk,
                   calls, jobs, produced, replays, orch>>

Receive == \E r \in web.requests : github_webhook_receive(r)

Process == \E i \in DOMAIN web.log : github_webhook_process(i)

\* a worker deployment that is never started
NoWorker == WorkerConfig(FALSE, 0, 0, 0, DEFAULT_DEDUP_TTL, 0, "up", {}, 0, 0)

NoOrchestrator == OrchestratorApp(FALSE, FALSE, {}, 0)

-----------------------------------------------------------------------------
(* Merge webhook: signature gate and idempotency. One merged-PR body, signed
   with the configured secret, with another secret or without the prefix *)

MergedBody ==
    Body("object", "closed", PullRequest("true", <<"proposal/abc123">>, <<>>), EXPECTED_REPO)

Signatures(body) ==
    {SignatureHeader("sha256=", WEBHOOK_SECRET, body),
     SignatureHeader("sha256=", "invalid", body),
     SignatureHeader("", WEBHOOK_SECRET, body)}

WebhookRequests ==
    {Request("pull_request", sig, d, MergedBody) :
        sig \in Signatures(MergedBody), d \in {"D1", ""}}

WebhookApps ==
    {WebhookApp(secret, has_redis, WebhookRequests, MaxDeliveries) :
        secret \in {"", WEBHOOK_SECRET}, has_redis \in BOOLEAN}

InitWebhook == InitApps({NoWorker}, WebhookApps, {NoOrchestrator})

NextWebhook ==
    \/ Receive
    \/ Process
    \/ configure_secret
    \/ Tick

SpecWebhook == InitWebhook /\ [][NextWebhook]_vars

Deliveries == DOMAIN web.log

\* the pr_merged events appended by delivery i
MergedEvents(i) ==
    {k \in EventsOfType("pr_merged") : events[k].job = i}

\* delivery i carried no valid signature for the secret configured when it
\* was received, or no secret was configured
Unsigned(i) ==
    \/ web.log[i].secret = ""
    \/ web.log[i].req.signature
          # SignatureHeader("sha256=", web.log[i].secret, web.log[i].req.body)

SameDelivery(i, j) ==
    /\ web.log[i].req.delivery = web.log[j].req.delivery
    /\ web.log[i].req.body = web.log[j].req.body

Duplicate(j) ==
    /\ web.log[j].status = 200
    /\ web.log[j].result = "duplicate"
    /\ MergedEvents(j) = {}
    /\ ~web.log[j].pushed

Accepted(i) ==
    /\ web.log[i].status = 202
    /\ web.log[i].result = "accepted"

C8_SignatureGate ==
    /\ \A i \in Deliveries :
          Unsigned(i) =>
             /\ web.log[i].status = (IF web.log[i].secret = "" THEN 503 ELSE 401)
             /\ ~web.log[i].was_new
             /\ ~web.log[i].pushed
             /\ MergedEvents(i) = {}
    /\ \A m \in web.markers :
          \E i \in Deliveries :
             /\ ~Unsigned(i)
             /\ web.log[i].req.delivery = m.id
             /\ web.log[i].at + IDEMPOTENCY_TTL = m.exp
    /\ \A j \in Deliveries :
          (/\ ~Unsigned(j)
           /\ web.redis
           /\ web.log[j].req.delivery # ""
           /\ \A i \in Deliveries :
                 (i < j /\ web.log[i].req.delivery = web.log[j].req.delivery)
                    => Unsigned(i))
          => web.log[j].was_new
    /\ Len(queue) = Cardinality({i \in Deliveries : web.log[i].pushed})
    /\ \A k \in EventsOfType("pr_merged") : events[k].job \in Deliveries

C8_Witness ==
    \E i, j, k \in Deliveries :
        /\ i < k /\ j < k
        /\ web.log[i].req.delivery = "D1"
        /\ web.log[j].req.delivery = "D1"
        /\ web.log[k].req.delivery = "D1"
        /\ web.log[i].status = 503
        /\ web.log[j].status = 401
        /\ web.log[k].was_new
        /\ Accepted(k)
        /\ MergedEvents(k) # {}

-----------------------------------------------------------------------------
(* Merge webhook: the filter. Correctly signed deliveries of every kind of
   body and event type *)

LinkedPr(merged) ==
    PullRequest(merged, <<"proposal/abc123", "APT-200">>,
                <<[key |-> "summary", value |-> "plan"],
                  [key |-> "appointment_id", value |-> "APT-100"]>>)

FilterBodies ==
    {Body("object", "closed", LinkedPr("true"), EXPECTED_REPO),
     Body("object", "closed", LinkedPr("false"), EXPECTED_REPO),
     Body("object", "opened", LinkedPr("true"), EXPECTED_REPO),
     Body("object", "closed", LinkedPr("true"), "other-repo"),
     Body("object", NoKey, NoPullRequest, NoKey),
     Body("array", NoKey, NoPullRequest, NoKey),
     Body("invalid", NoKey, NoPullRequest, NoKey)}

FilterRequests ==
    {Request(ev, SignatureHeader("sha256=", WEBHOOK_SECRET, b), d, b) :
        ev \in {"pull_request", "push"}, b \in FilterBodies, d \in {"D1", ""}}

FilterApps ==
    {WebhookApp(WEBHOOK_SECRET, has_redis, FilterRequests, FilterDeliveries) :
        has_redis \in BOOLEAN}

InitFilter == InitApps({NoWorker}, FilterApps, {NoOrchestrator})

NextFilter ==
    \/ Receive
    \/ Process
    \/ Tick

SpecFilter == InitFilter /\ [][NextFilter]_vars

\* the four conditions of the filter, on the request as sent
IsMergedPr(r) ==
    /\ r.event = "pull_request"
    /\ r.body.json = "object"
    /\ r.body.action = "closed"
    /\ r.body.pull_request.merged = "true"
    /\ r.body.repository = EXPECTED_REPO

Ignored(i) ==
    /\ web.log[i].status = 202
    /\ web.log[i].result = "ignored"
    /\ MergedEvents(i) = {}
    /\ ~web.log[i].pushed

-----------------------------------------------------------------------------
(* signing/canonical.py and signing/hmac.py: canonical JSON and the HMAC
   signature of a payload.  A JSON value is a string, a list or a map; a map
   is kept as the sequence of its items in insertion order, as a Python dict
   keeps them. *)

MaxEdits == 3

Str(s) == [kind |-> "str", str |-> s, items |-> <<>>]
Dict(items) == [kind |-> "dict", str |-> "", items |-> items]
List(items) == [kind |-> "list", str |-> "", items |-> items]
Item(key, value) == [key |-> key, value |-> value]

HasKey(items, key) == \E i \in DOMAIN items : items[i].key = key

\* dict.get(key, default)
DictGet(items, key, default) ==
    IF HasKey(items, key)
    THEN items[CHOOSE i \in DOMAIN items : items[i].key = key].value
    ELSE default

\* d[key] = value: an existing key keeps its position, a new key goes last
SetItem(items, key, value) ==
    IF HasKey(items, key)
    THEN [i \in DOMAIN items |->
             IF items[i].key = key THEN Item(key, value) ELSE items[i]]
    ELSE Append(items, Item(key, value))

\* del d[key]
DelItem(items, key) == SelectSeq(items, LAMBDA it : it.key # key)

\* the keys of the model in the order Python compares str (code points)
SortedKeys ==
    <<"action_type", "actions", "appointment_id", "c", "channel", "clinic_id",
      "created_at", "d", "environment", "hmac_signature", "patient_id", "plan_id",
      "risk_level", "scheduled_at", "template", "version">>

KeyRank(key) == CHOOSE i \in DOMAIN SortedKeys : SortedKeys[i] = key

\* json.dumps without sort_keys: the items in insertion order
InsertionOrder(items) == items

\* json.dumps(sort_keys=True): the items of one map ordered by key
SortedItems(items) ==
    [i \in DOMAIN items |->
        CHOOSE it \in {items[j] : j \in DOMAIN items} :
            Cardinality({j \in DOMAIN items :
                            KeyRank(items[j].key) < KeyRank(it.key)}) = i - 1]

Quote(s) == "\"" \o s \o "\""

RECURSIVE dumps(_)
RECURSIVE dumps_items(_, _)
\* json.dumps(value, sort_keys=True, separators=(",", ":"))
dumps(value) ==
    IF value.kind = "str" THEN Quote(value.str)
    ELSE IF value.kind = "list" THEN "[" \o dumps_items(value.items, FALSE) \o "]"
    ELSE "{" \o dumps_items(SortedItems(value.items), TRUE) \o "}"

\* the items of a map ("key":value) or of a list (value), comma-separated
dumps_items(items, keyed) ==
    IF items = <<>> THEN ""
    ELSE (IF keyed THEN Quote(Head(items).key) \o ":" ELSE "")
         \o dumps(Head(items).value)
         \o (IF Len(items) > 1 THEN "," ELSE "")
         \o dumps_items(Tail(items), keyed)

\* canonicalise(payload, exclude_keys): the exclusion applies to the keys of
\* the payload itself, the sorting to every map in it
canonicalise(payload, exclude_keys) ==
    dumps(Dict(IF exclude_keys # {}
               THEN SelectSeq(payload, LAMBDA it : it.key \notin exclude_keys)
               ELSE payload))

_EXCLUDE == {"hmac_signature"}

\* hmac.new(secret, msg, sha256).hexdigest(): injective in key and message
hexdigest(secret, msg) == ToString(HmacSha256(secret, msg))

sign_payload_ignoring_secret(payload, secret) ==
    hexdigest("", canonicalise(payload, _EXCLUDE))

sign_payload(payload, secret) == hexdigest(secret, canonicalise(payload, _EXCLUDE))

verify_signature(payload, secret) ==
    LET expected == DictGet(payload, "hmac_signature", Str(""))
    IN  /\ expected.str # ""
        /\ sign_payload(payload, secret) = expected.str

\* the payload as a map: what two payloads share when they differ only in
\* the insertion order of their keys, at any depth
RECURSIVE AsMap(_)
AsMap(value) ==
    [kind |-> value.kind, str |-> value.str,
     items |-> {[key |-> IF value.kind = "list" THEN ToString(i) ELSE value.items[i].key,
                 value |-> AsMap(value.items[i].value)] : i \in DOMAIN value.items}]

\* the keys of every map of the value leave the serializer in ascending order
RECURSIVE EmitsSorted(_)
EmitsSorted(value) ==
    LET emitted == IF value.kind = "dict" THEN SortedItems(value.items) ELSE value.items
    IN  /\ value.kind = "dict" =>
              \A i, j \in DOMAIN emitted :
                  i < j => KeyRank(emitted[i].key) < KeyRank(emitted[j].key)
        /\ \A i \in DOMAIN emitted : EmitsSorted(emitted[i].value)

\* the payload without its signature field
Fields(payload) == DelItem(payload, "hmac_signature")

NotVerified == [secret |-> "", ok |-> FALSE, done |-> FALSE]

\* a payload under construction, the secret of its owner, the payload as it
\* was signed and the last verification
Plan(payload, secret) ==
    [stage |-> "plan", payload |-> payload, secret |-> secret, edits |-> 0,
     is_signed |-> FALSE, signed |-> <<>>, canonical |-> "",
     verified |-> NotVerified, max_edits |-> MaxEdits]

SignUnchanged ==
    UNCHANGED <<now, cfg, promotions, queue, retry, dlq, sent, rate, consent, events, wrk,
                calls, jobs, produced, replays, web, orch, agents, store>>

\* payload[key] = value by the holder of the payload
set_item(key, value) ==
    /\ plan.edits < plan.max_edits
    /\ plan' = [plan EXCEPT !.payload = SetItem(@, key, value),
                            !.edits = @ + 1, !.verified = NotVerified]
    /\ SignUnchanged

\* del payload[key]
del_item(key) ==
    /\ plan.edits < plan.max_edits
    /\ HasKey(plan.payload, key)
    /\ plan' = [plan EXCEPT !.payload = DelItem(@, key),
                            !.edits = @ + 1, !.verified = NotVerified]
    /\ SignUnchanged

\* plan["hmac_signature"] = sign_payload(plan, secret)
sign ==
    /\ ~plan.is_signed
    /\ LET signature == sign_payload(plan.payload, plan.secret)
           signed == SetItem(plan.payload, "hmac_signature", Str(signature))
       IN  plan' = [plan EXCEPT !.payload = signed, !.signed = signed,
                                !.is_signed = TRUE,
                                !.canonical = canonicalise(plan.payload, _EXCLUDE),
                                !.verified = NotVerified]
    /\ SignUnchanged

\* verify_signature(plan, secret)
verify(secret) ==
    /\ plan' = [plan EXCEPT !.verified =
                   [secret |-> secret, ok |-> verify_signature(plan.payload, secret),
                    done |-> TRUE]]
    /\ SignUnchanged

Secrets == {"hmac-secret", "other-secret"}

Ordered == Dict(<<Item("c", Str("x")), Item("d", Str("y"))>>)
Reversed == Dict(<<Item("d", Str("y")), Item("c", Str("x"))>>)

\* values of the fields: strings, maps in both insertion orders, lists of maps
SignatureValues == {Str(""), Str("forged")}
PlanIdValues == {Str("x"), Str("y")}
ActionsValues ==
    {Ordered, Reversed, Dict(<<Item("c", Str("x"))>>),
     List(<<Item("", Ordered)>>), List(<<Item("", Reversed)>>),
     Dict(<<Item("d", Reversed), Item("c", Ordered)>>)}

FieldValues(key) ==
    IF key = "hmac_signature" THEN SignatureValues
    ELSE IF key = "plan_id" THEN PlanIdValues
    ELSE ActionsValues

FieldKeys == {"plan_id", "actions", "hmac_signature"}

\* an empty payload, and a plan as build_execution_plan leaves it
InitialPayloads ==
    {<<>>,
     <<Item("plan_id", Str("x")), Item("actions", Ordered),
       Item("hmac_signature", Str(""))>>}

\* no application running: only library functions are called
InitLib(plans, evaluations, stores) ==
    InitState({NoWorker}, {WebhookApp("", FALSE, {}, 0)}, {NoOrchestrator},
              plans, evaluations, stores)

InitSign ==
    InitLib({Plan(payload, secret) : payload \in InitialPayloads, secret \in Secrets},
            {NoAgents}, {NoStore})

Editing == \E key \in FieldKeys : \E value \in FieldValues(key) : set_item(key, value)

Deleting == \E key \in FieldKeys : del_item(key)

Verifying == \E secret \in Secrets : verify(secret)

NextSign ==
    \/ Editing
    \/ Deleting
    \/ sign
    \/ Verifying

SpecSign == InitSign /\ [][NextSign]_vars

\* the current payload carries the signature it was signed with
KeepsSignature ==
    /\ plan.is_signed
    /\ DictGet(plan.payload, "hmac_signature", Str("")) =
           DictGet(plan.signed, "hmac_signature", Str(""))

\* no field other than hmac_signature differs from the signed payload
SameFields == AsMap(Dict(Fields(plan.payload))) = AsMap(Dict(Fields(plan.signed)))

\* C14: round trip of sign_payload and verify_signature.  A verification
\* answers true exactly when the payload carries the signature computed at
\* signing, the secret is the signing secret and no field other than
\* hmac_signature was changed since; so it is true right after signing, false
\* with a different secret, false after any other field was changed, and
\* false for a payload whose hmac_signature is missing or empty.
C14_SignVerifyRoundTrip ==
    /\ plan.verified.done =>
          /\ plan.verified.ok <=>
                 (KeepsSignature /\ SameFields /\ plan.verified.secret = plan.secret)
          /\ DictGet(plan.payload, "hmac_signature", Str("")) = Str("") =>
                 ~plan.verified.ok
    /\ plan.is_signed =>
          \A secret \in Secrets :
              verify_signature(plan.signed, secret) <=> secret = plan.secret

\* a signed plan whose keys were re-inserted in another order verifies
C14_Witness ==
    /\ plan.is_signed
    /\ plan.verified.done /\ plan.verified.ok
    /\ plan.payload # plan.signed

\* a signed plan with one field changed was verified with the signing secret
C14_TamperSeen ==
    /\ KeepsSignature /\ ~SameFields
    /\ plan.verified.done /\ plan.verified.secret = plan.secret

\* C15: canonicalise(P, {hmac_signature}) is the same string for two payloads
\* that are equal as maps at every nesting level, whatever the insertion
\* order of their keys and whatever the value or presence of hmac_signature,
\* and every map in P is emitted with its keys in ascending order.
C15_CanonicalForm ==
    /\ EmitsSorted(Dict(plan.payload))
    /\ plan.is_signed /\ SameFields =>
          canonicalise(plan.payload, _EXCLUDE) = plan.canonical

\* the same map with its keys in another insertion order and without the
\* signature serializes to the string that was signed
C15_Witness ==
    /\ plan.is_signed /\ SameFields
    /\ Fields(plan.payload) # Fields(plan.signed)
    /\ ~HasKey(plan.payload, "hmac_signature")
    /\ Len(plan.payload) > 1
    /\ canonicalise(plan.payload, _EXCLUDE) = plan.canonical

-----------------------------------------------------------------------------
(* scoring/risk_scorer.py: the rule-based no-show risk score.  Signals and
   weights are in hundredths, the score in units of 1/10000, which every
   product of a weight and a signal is a whole number of. *)

MaxNoShows == 4

W_NO_SHOW_HISTORY == 40
W_FIRST_VISIT == 15
W_LEAD_TIME == 15
W_TIME_OF_DAY == 10
W_DAY_OF_WEEK == 10
W_CONTACT == 10

ONE == 10000
LOW_BELOW == 3000
MEDIUM_BELOW == 6000

Max(a, b) == IF a > b THEN a ELSE b

\* max(0.0, min(1.0, value))
_clamp(value) == Max(0, Min(ONE, value))

_level_without_medium(score) == IF score < LOW_BELOW THEN "low" ELSE "high"

_level(score) ==
    IF score < LOW_BELOW THEN "low"
    ELSE IF score < MEDIUM_BELOW THEN "medium"
    ELSE "high"

\* scheduled_at as datetime.fromisoformat reads it: unparseable, or a time of
\* day, a weekday (Monday 0) and a distance from now in hours
Unparseable == [valid |-> FALSE, lead_hours |-> 0, hour |-> 0, weekday |-> 0]
IsoTime(lead_hours, hour, weekday) ==
    [valid |-> TRUE, lead_hours |-> lead_hours, hour |-> hour, weekday |-> weekday]

\* the appointment as AppointmentIn.model_dump() hands it to the orchestrator
AppointmentIn(appointment_id, patient_id, clinic_id, scheduled_at, is_first_visit, previous_no_shows, patient_phone, patient_whatsapp) ==
    [appointment_id |-> appointment_id, patient_id |-> patient_id, clinic_id |-> clinic_id,
     scheduled_at |-> scheduled_at, is_first_visit |-> is_first_visit,
     previous_no_shows |-> previous_no_shows, patient_phone |-> patient_phone,
     patient_whatsapp |-> patient_whatsapp]

\* factor 1
_no_show_signal(prev) ==
    IF prev = 0 THEN 0
    ELSE IF prev = 1 THEN 50
    ELSE IF prev = 2 THEN 75
    ELSE 100

\* factor 3: days < 1, days < 3, days > 14, else
_lead_time_signal(iso) ==
    IF ~iso.valid THEN 30
    ELSE IF iso.lead_hours < HOURS_PER_DAY THEN 70
    ELSE IF iso.lead_hours < 3 * HOURS_PER_DAY THEN 30
    ELSE IF iso.lead_hours > 14 * HOURS_PER_DAY THEN 50
    ELSE 10

\* factor 4
_time_of_day_signal(iso) ==
    IF ~iso.valid THEN 30
    ELSE IF iso.hour < 9 \/ iso.hour >= 17 THEN 60
    ELSE IF iso.hour < 11 THEN 20
    ELSE 10

\* factor 5
_day_of_week_signal(iso) ==
    IF ~iso.valid THEN 30
    ELSE IF iso.weekday \in {0, 4} THEN 60
    ELSE IF iso.weekday \in {5, 6} THEN 40
    ELSE 10

\* factor 6
_contact_signal(patient_phone, patient_whatsapp) ==
    LET has_phone == patient_phone # ""
        has_wa == patient_whatsapp
    IN  IF has_phone /\ has_wa THEN 0
        ELSE IF has_phone \/ has_wa THEN 30
        ELSE 80

Factors(appointment) ==
    [no_show_history |-> _no_show_signal(appointment.previous_no_shows),
     first_visit |-> IF appointment.is_first_visit THEN 60 ELSE 0,
     lead_time |-> _lead_time_signal(appointment.scheduled_at),
     time_of_day |-> _time_of_day_signal(appointment.scheduled_at),
     day_of_week |-> _day_of_week_signal(appointment.scheduled_at),
     contact |-> _contact_signal(appointment.patient_phone, appointment.patient_whatsapp)]

WeightedSum(factors) ==
    W_NO_SHOW_HISTORY * factors.no_show_history
    + W_FIRST_VISIT * factors.first_visit
    + W_LEAD_TIME * factors.lead_time
    + W_TIME_OF_DAY * factors.time_of_day
    + W_DAY_OF_WEEK * factors.day_of_week
    + W_CONTACT * factors.contact

\* RiskScorer.score: round(raw, 4) leaves a whole number of 1/10000 as it is
score(appointment) ==
    LET factors == Factors(appointment)
        final == _clamp(WeightedSum(factors))
    IN  [score |-> final, level |-> _level(final), factors |-> factors]

-----------------------------------------------------------------------------
(* orchestration/agents/revenue_agent.py, compliance_agent.py and
   policy/opa_client.py *)

DEFAULT_MAX_MESSAGES == 3
NoLimit == -1

\* clinic_profile["messaging"]: either key may be absent
ClinicProfile(preferred_channel, max_messages) ==
    [preferred_channel |-> preferred_channel, max_messages |-> max_messages]

Action(action_type, channel, template, hours_before) ==
    [action_type |-> action_type, channel |-> channel, template |-> template,
     hours_before |-> hours_before]

generate_sequence_always_high(risk_level, clinic_profile) ==
    LET preferred_channel == Get(clinic_profile.preferred_channel, "whatsapp")
    IN  <<Action("send_reminder", preferred_channel, "confirm_reminder_v2", 48),
          Action("send_confirmation", preferred_channel, "urgency_short", 24),
          Action("reschedule", preferred_channel, "reschedule_offer", 2)>>

\* RevenueAgent.generate_sequence
generate_sequence(risk_level, clinic_profile) ==
    LET preferred_channel == Get(clinic_profile.preferred_channel, "whatsapp")
    IN  IF risk_level = "low"
        THEN <<Action("send_reminder", preferred_channel, "confirm_reminder_v2", 24)>>
        ELSE IF risk_level = "medium"
        THEN <<Action("send_reminder", preferred_channel, "confirm_reminder_v2", 48),
               Action("send_confirmation", preferred_channel, "urgency_short", 24)>>
        ELSE <<Action("send_reminder", preferred_channel, "confirm_reminder_v2", 48),
               Action("send_confirmation", preferred_channel, "urgency_short", 24),
               Action("reschedule", preferred_channel, "reschedule_offer", 2)>>

\* what the policy server does with one request: no connection (status 0),
\* an error status, or 200 with a body that is or is not a JSON object,
\* whose result may lack the decision
Response(status, json, decision, violations) ==
    [status |-> status, json |-> json, decision |-> decision, violations |-> violations]

Outcome(outcome, decision, violations) ==
    [outcome |-> outcome, decision |-> decision, violations |-> violations]

\* OPAClient.evaluate: only httpx.HTTPError becomes OPAError; reading the
\* body is outside the try
evaluate(response) ==
    IF response.status # 200 THEN Outcome("OPAError", "", <<>>)
    ELSE IF ~response.json THEN Outcome("error", "", <<>>)
    ELSE Outcome("result", Get(response.decision, "DENY"), response.violations)

\* the violations of one action, given what evaluate returned or raised
action_violations(outcome) ==
    IF outcome.outcome = "OPAError" THEN <<"OPA_Unavailable">>
    ELSE IF outcome.decision # "ALLOW"
    THEN (IF outcome.violations # <<>> THEN outcome.violations ELSE <<"OPA_Deny">>)
    ELSE <<>>

RECURSIVE opa_violations(_, _)
\* the loop over the actions, as far as no evaluation raises anything but OPAError
opa_violations(actions, responses) ==
    IF actions = <<>> \/ evaluate(Head(responses)).outcome = "error" THEN <<>>
    ELSE action_violations(evaluate(Head(responses)))
         \o opa_violations(Tail(actions), Tail(responses))

LimitViolation(count, max_messages) ==
    "Action count (" \o ToString(count) \o ") exceeds daily limit ("
        \o ToString(max_messages) \o ")"

\* ComplianceAgent.validate with the responses the policy server gives to the
\* requests for the actions, in order; raised when an evaluation raised an
\* exception that validate does not catch
validate(actions, clinic_profile, has_opa, responses) ==
    LET max_messages == IF clinic_profile.max_messages = NoLimit
                        THEN DEFAULT_MAX_MESSAGES ELSE clinic_profile.max_messages
        over == IF Len(actions) > max_messages
                THEN <<LimitViolation(Len(actions), max_messages)>> ELSE <<>>
        violations == IF has_opa THEN over \o opa_violations(actions, responses) ELSE over
        raised == has_opa /\ \E i \in DOMAIN actions : evaluate(responses[i]).outcome = "error"
    IN  [raised |-> raised, compliant |-> ~raised /\ violations = <<>>,
         violations |-> violations]

-----------------------------------------------------------------------------
(* Scoring and sequencing of one appointment *)

AgentsUnchanged ==
    UNCHANGED <<now, cfg, promotions, queue, retry, dlq, sent, rate, consent, events, wrk,
                calls, jobs, produced, replays, web, orch, plan, store>>

Evaluation(appointment, clinic_profile) ==
    [stage |-> "input", appointment |-> appointment, clinic_profile |-> clinic_profile]

\* risk = self._scorer.score(appointment)
Score ==
    /\ agents.stage = "input"
    /\ agents' = [stage |-> "scored", appointment |-> agents.appointment,
                  clinic_profile |-> agents.clinic_profile,
                  risk |-> score(agents.appointment)]
    /\ AgentsUnchanged

\* sequence = self._revenue.generate_sequence(risk.level, ...)
Sequence ==
    /\ agents.stage = "scored"
    /\ agents' = [stage |-> "sequenced", appointment |-> agents.appointment,
                  clinic_profile |-> agents.clinic_profile, risk |-> agents.risk,
                  actions |-> generate_sequence(agents.risk.level, agents.clinic_profile)]
    /\ AgentsUnchanged

\* every integer the schema accepts, within the bound
NoShowCounts == (0 - MaxNoShows)..MaxNoShows

ScheduledAts ==
    {Unparseable} \cup
    {IsoTime(lead_hours, hour, weekday) :
        lead_hours \in {0, 23, 24, 71, 72, 336, 337},
        hour \in {0, 8, 9, 10, 11, 16, 17, 23},
        weekday \in 0..6}

ScoredAppointments ==
    {AppointmentIn("APT-100", "PAT-001", "clinic-1", scheduled_at, is_first_visit, previous_no_shows, patient_phone, patient_whatsapp) :
        scheduled_at \in ScheduledAts, is_first_visit \in BOOLEAN,
        previous_no_shows \in NoShowCounts, patient_phone \in {"", "+34600000000"},
        patient_whatsapp \in BOOLEAN}

ClinicProfiles == {ClinicProfile(NoKey, NoLimit), ClinicProfile("sms", DEFAULT_MAX_MESSAGES)}

InitScore ==
    InitLib({NoPlan},
            {Evaluation(appointment, clinic_profile) :
                appointment \in ScoredAppointments, clinic_profile \in ClinicProfiles},
            {NoStore})

NextScore ==
    \/ Score
    \/ Sequence

SpecScore == InitScore /\ [][NextScore]_vars

Scored == agents.stage \in {"scored", "sequenced"}

\* C16: the score is the weighted sum of the six factors, lies in [0, 1], and
\* the level is low iff score < 0.3, medium iff 0.3 <= score < 0.6, high
\* otherwise; for every combination of the inputs, unparseable scheduled_at
\* included.
C16_ScoreRangeAndLevel ==
    Scored =>
        LET risk == agents.risk
        IN  /\ risk.score = WeightedSum(risk.factors)
            /\ risk.score = 40 * risk.factors.no_show_history
                            + 15 * (risk.factors.first_visit + risk.factors.lead_time)
                            + 10 * (risk.factors.time_of_day + risk.factors.day_of_week
                                    + risk.factors.contact)
            /\ 0 <= risk.score /\ risk.score <= ONE
            /\ risk.level = "low" <=> risk.score < 3000
            /\ risk.level = "medium" <=> (3000 <= risk.score /\ risk.score < 6000)
            /\ risk.level = "high" <=> risk.score >= 6000
            /\ risk.level \in {"low", "medium", "high"}

\* an appointment with unparseable scheduled_at scored at medium level
C16_Witness ==
    /\ Scored
    /\ ~agents.appointment.scheduled_at.valid
    /\ agents.risk.level = "medium"
    /\ agents.risk.score = 40 * 50 + 15 * 60 + 15 * 30 + 10 * 30 + 10 * 30 + 10 * 80

\* C17 as stated: raising previous_no_shows alone, to any integer the ingest
\* schema accepts, never lowers the score.
C17_MonotonicClaim ==
    Scored =>
        \A more \in NoShowCounts :
            more > agents.appointment.previous_no_shows =>
                score([agents.appointment EXCEPT !.previous_no_shows = more]).score
                    >= agents.risk.score

\* C17 for counts from 0 up, where the scorer is monotonic
C17_MonotonicFromZero ==
    Scored /\ agents.appointment.previous_no_shows >= 0 =>
        \A more \in NoShowCounts :
            more > agents.appointment.previous_no_shows =>
                score([agents.appointment EXCEPT !.previous_no_shows = more]).score
                    >= agents.risk.score

Offsets(actions) ==
    [i \in DOMAIN actions |-> <<actions[i].action_type, actions[i].hours_before>>]

-----------------------------------------------------------------------------
(* ComplianceAgent.validate on proposals of any length, with and without an
   OPA client *)

MaxActions == 4

\* a proposal of n actions
Proposal(n) == [i \in 1..n |-> Action("send_reminder", "sms", "confirm_reminder_v2", i)]

Validation(actions, clinic_profile, has_opa) ==
    [stage |-> "proposal", actions |-> actions, clinic_profile |-> clinic_profile,
     has_opa |-> has_opa]

\* await self._compliance.validate(...), the policy server answering each
\* request in one of the ways of Responses
Validate(responses) ==
    /\ agents.stage = "proposal"
    /\ Len(responses) = Len(agents.actions)
    /\ agents' = [stage |-> "validated", actions |-> agents.actions,
                  clinic_profile |-> agents.clinic_profile, has_opa |-> agents.has_opa,
                  responses |-> responses,
                  result |-> validate(agents.actions, agents.clinic_profile,
                                      agents.has_opa, responses)]
    /\ AgentsUnchanged

Allow == Response(200, TRUE, "ALLOW", <<>>)
Deny == Response(200, TRUE, "DENY", <<"quiet_hours">>)
BareDeny == Response(200, TRUE, NoKey, <<>>)
Unreachable == Response(0, FALSE, NoKey, <<>>)
NotJson == Response(200, FALSE, NoKey, <<>>)

Responses == {Allow, Deny, BareDeny, Unreachable, NotJson}

Validations ==
    {Validation(Proposal(n), ClinicProfile(NoKey, max_messages), has_opa) :
        n \in 0..MaxActions, max_messages \in {NoLimit, 1, DEFAULT_MAX_MESSAGES},
        has_opa \in BOOLEAN}

InitCompliance == InitLib({NoPlan}, Validations, {NoStore})

NextCompliance ==
    \E n \in 0..MaxActions : \E responses \in [1..n -> Responses] : Validate(responses)

SpecCompliance == InitCompliance /\ [][NextCompliance]_vars

\* the entry the claim gives to one action, from the answer of the policy server
ClaimedEntry(response) ==
    IF response.status # 200 \/ ~response.json THEN <<"OPA_Unavailable">>
    ELSE IF response.decision = "ALLOW" THEN <<>>
    ELSE IF response.violations # <<>> THEN response.violations
    ELSE <<"OPA_Deny">>

RECURSIVE ClaimedEntries(_)
ClaimedEntries(responses) ==
    IF responses = <<>> THEN <<>>
    ELSE ClaimedEntry(Head(responses)) \o ClaimedEntries(Tail(responses))

ClaimedViolations ==
    LET limit == IF agents.clinic_profile.max_messages = NoLimit
                 THEN DEFAULT_MAX_MESSAGES ELSE agents.clinic_profile.max_messages
    IN  (IF Len(agents.actions) > limit
         THEN <<LimitViolation(Len(agents.actions), limit)>> ELSE <<>>)
        \o (IF agents.has_opa THEN ClaimedEntries(agents.responses) ELSE <<>>)

\* C19 as stated: validate returns compliant iff the violation list is empty,
\* and the list holds one entry when the action count exceeds the limit, the
\* violations (or OPA_Deny) of every action the policy server does not allow,
\* and OPA_Unavailable for every action on which the server is unreachable or
\* errors; without an OPA client only the count check applies.
C19_FailClosedClaim ==
    agents.stage = "validated" =>
        /\ ~agents.result.raised
        /\ agents.result.violations = ClaimedViolations
        /\ agents.result.compliant <=> agents.result.violations = <<>>

\* the same for policy servers whose 200 responses carry a JSON object
C19_FailClosedOnHttpErrors ==
    agents.stage = "validated"
    /\ (\A i \in DOMAIN agents.responses : agents.responses[i] # NotJson) =>
        /\ ~agents.result.raised
        /\ agents.result.violations = ClaimedViolations
        /\ agents.result.compliant <=> agents.result.violations = <<>>

-----------------------------------------------------------------------------
(* Orchestrator.process_appointment (orchestration/orchestrator.py) *)

MAX_MESSAGES_PER_DAY == 3

\* the clinic_profile process_appointment passes to both agents
OrchestratorProfile == ClinicProfile("whatsapp", MAX_MESSAGES_PER_DAY)

\* str(uuid.uuid4()): one fresh id per call
ProposalId(c) == "proposal-" \o ToString(c)

\* _resolve_scheduled_times: hours_before becomes scheduled_at, counted here
\* in hours from now; an unparseable appointment time counts as tomorrow
_resolve_scheduled_times(actions, appointment_iso) ==
    LET appt_dt == IF appointment_iso.valid THEN appointment_iso.lead_hours
                   ELSE HOURS_PER_DAY
    IN  [i \in DOMAIN actions |->
            [action_type |-> actions[i].action_type, channel |-> actions[i].channel,
             template |-> actions[i].template,
             scheduled_at |-> appt_dt - actions[i].hours_before]]

\* gitops/manifest.py build_execution_plan
build_execution_plan(proposal_id, clinic_id, patient_id, appointment_id, actions, risk_level) ==
    <<Item("plan_id", Str(proposal_id)),
      Item("version", Str("1.0.0")),
      Item("environment", Str("dev")),
      Item("clinic_id", Str(clinic_id)),
      Item("actions", List([i \in DOMAIN actions |->
          Item("", Dict(<<Item("action_type", Str(actions[i].action_type)),
                          Item("patient_id", Str(patient_id)),
                          Item("appointment_id", Str(appointment_id)),
                          Item("channel", Str(actions[i].channel)),
                          Item("template", Str(actions[i].template)),
                          Item("scheduled_at", Str(ToString(actions[i].scheduled_at)))>>))])),
      Item("risk_level", Str(risk_level)),
      Item("hmac_signature", Str("")),
      Item("created_at", Str(ToString(now)))>>

\* one process_appointment call: its locals up to the compliance check, the
\* appends the event store fails during the call, the answers of the policy
\* server, and the fields of the result
Call(appointment, c, lost) ==
    LET risk == score(appointment)
        sequence == generate_sequence(risk.level, OrchestratorProfile)
    IN  [appointment |-> appointment, proposal_id |-> ProposalId(c),
         appt_id |-> Get(appointment.appointment_id, ProposalId(c)),
         lost |-> lost, stage |-> "received",
         risk |-> risk,
         actions |-> _resolve_scheduled_times(sequence, appointment.scheduled_at),
         responses |-> <<>>,
         compliant |-> TRUE, violations |-> <<>>, hmac_signature |-> "",
         pr_outcome |-> "none", pr_url |-> None]

AtStage(c, stage) == c \in DOMAIN orch.calls /\ orch.calls[c].stage = stage

OrchUnchanged ==
    UNCHANGED <<now, cfg, promotions, queue, retry, dlq, sent, rate, consent, wrk,
                calls, jobs, produced, replays, web, plan, agents, store>>

\* self._events.append raises for the event types the store loses in this call
AppendRaises(call, event_type) == orch.event_store /\ event_type \in call.lost

_emit_raises_uncaught(call, event_type) == AppendRaises(call, event_type)

\* whether _emit raises to process_appointment: except Exception lets nothing through
_emit_raises(call, event_type) == FALSE

\* Orchestrator._emit for call c
OrchEmit(log, call, c, event_type, payload) ==
    IF AppendRaises(call, event_type) THEN log
    ELSE _emit(log, orch.event_store, Event(call.appt_id, event_type, payload, c))

\* the events of process_appointment up to the compliance check (steps 1 to 3)
scored_events(log, call, c) ==
    OrchEmit(OrchEmit(log, call, c, "appointment_received",
                      [appointment |-> call.appointment]),
             call, c, "risk_scored",
             [score |-> call.risk.score, level |-> call.risk.level])

\* the events of steps 4 and 5: execution plan and HMAC signature (empty
\* without a secret)
signed_events(log, call, c, actions) ==
    OrchEmit(OrchEmit(log, call, c, "proposal_created",
                      [proposal_id |-> call.proposal_id, actions |-> Len(actions)]),
             call, c, "proposal_signed",
             [proposal_id |-> call.proposal_id, signed |-> orch.hmac_secret # ""])

\* step 5: the signature of the plan, empty without a secret
Signature(call) ==
    IF orch.hmac_secret = "" THEN ""
    ELSE sign_payload(build_execution_plan(call.proposal_id,
                                           call.appointment.clinic_id,
                                           Get(call.appointment.patient_id, ""),
                                           Get(call.appointment.appointment_id, ""),
                                           call.actions, call.risk.level),
                      orch.hmac_secret)

submits_without_token == orch.github_pr

\* if self._github_pr and self._settings.github_token
submits == orch.github_pr /\ orch.github_token

rejects_never(compliance) == FALSE

\* if not compliance.compliant
rejects(compliance) == ~compliance.compliant

Raises(call, types) == \E event_type \in types : _emit_raises(call, event_type)

\* process_appointment from the return of validate to its next suspension,
\* the call of create_plan_pr, or to its return: the event log and the call
after_validate(log, call, c, compliance) ==
    IF compliance.raised
    THEN [log |-> log, call |-> [call EXCEPT !.stage = "raised"]]
    ELSE IF rejects(compliance)
    THEN [log |-> log,
          call |-> [call EXCEPT !.stage = "done", !.compliant = FALSE,
                                !.violations = compliance.violations]]
    ELSE IF Raises(call, {"proposal_created", "proposal_signed"})
    THEN [log |-> log, call |-> [call EXCEPT !.stage = "raised"]]
    ELSE [log |-> signed_events(log, call, c, call.actions),
          call |-> [call EXCEPT !.stage = IF submits THEN "pr" ELSE "done",
                                !.hmac_signature = Signature(call)]]

\* process_appointment from its entry to its first suspension or its return.
\* Without an OPA client validate does not suspend, so the event loop runs
\* the handler in one piece up to the call of create_plan_pr; with an OPA
\* client it suspends in validate
process_appointment(appointment, lost) ==
    /\ Len(orch.calls) < orch.max_calls
    /\ LET c == Len(orch.calls) + 1
           call == Call(appointment, c, lost)
           scored == scored_events(events, call, c)
           next == after_validate(scored, call, c,
                                  validate(call.actions, OrchestratorProfile, FALSE, <<>>))
       IN  IF Raises(call, {"appointment_received", "risk_scored"})
           THEN /\ events' = events
                /\ orch' = [orch EXCEPT !.calls = Append(@, [call EXCEPT !.stage = "raised"])]
           ELSE IF orch.opa
           THEN /\ events' = scored
                /\ orch' = [orch EXCEPT !.calls = Append(@, [call EXCEPT !.stage = "validating"])]
           ELSE /\ events' = next.log
                /\ orch' = [orch EXCEPT !.calls = Append(@, next.call)]
    /\ OrchUnchanged

\* validate returns or raises after the policy server answered for each action
validate_returns(c, responses) ==
    /\ AtStage(c, "validating")
    /\ LET next == after_validate(events, orch.calls[c], c,
                       validate(orch.calls[c].actions, OrchestratorProfile, TRUE, responses))
       IN  /\ events' = next.log
           /\ orch' = [orch EXCEPT !.calls[c] = [next.call EXCEPT !.responses = responses]]
    /\ OrchUnchanged

\* step 6: the events after create_plan_pr returned ("ok") or raised
pr_events_always(log, c, outcome) ==
    OrchEmit(log, orch.calls[c], c, "pr_opened",
             [proposal_id |-> orch.calls[c].proposal_id, pr_url |-> "pr-url"])

pr_events(log, c, outcome) ==
    IF outcome = "ok"
    THEN OrchEmit(log, orch.calls[c], c, "pr_opened",
                  [proposal_id |-> orch.calls[c].proposal_id, pr_url |-> "pr-url"])
    ELSE log

\* the await of create_plan_pr ends; anything raised inside the try of step 6
\* is caught there
create_plan_pr(c) ==
    /\ AtStage(c, "pr")
    /\ \E outcome \in {"ok", "raise"} :
          /\ events' = pr_events(events, c, outcome)
          /\ orch' = [orch EXCEPT !.calls[c].stage = "done",
                                  !.calls[c].pr_outcome = outcome,
                                  !.calls[c].pr_url = IF outcome = "ok" THEN "pr-url" ELSE None]
    /\ OrchUnchanged

-----------------------------------------------------------------------------
(* Orchestrator: appointments ingested, also the same appointment twice *)

\* scored low (0.035), high (0.795) and medium (0.335)
LowRisk == AppointmentIn("APT-100", "PAT-001", "clinic-1", IsoTime(100, 12, 2), FALSE, 0, "+34600000000", TRUE)
HighRisk == AppointmentIn("APT-100", "PAT-001", "clinic-1", IsoTime(5, 8, 0), TRUE, 3, "", FALSE)
MediumRisk == AppointmentIn(NoKey, "PAT-002", "clinic-1", Unparseable, FALSE, 1, "+34600000000", FALSE)

OrchAppointments == {LowRisk, HighRisk, MediumRisk}

OrchestratorApps ==
    {OrchestratorApp(has_github, has_hmac_secret, OrchAppointments, MaxCalls) :
        has_github \in BOOLEAN, has_hmac_secret \in BOOLEAN}

InitOrch == InitApps({NoWorker}, {WebhookApp("", FALSE, {}, 0)}, OrchestratorApps)

Ingest == \E a \in orch.appointments : \E lost \in orch.losses : process_appointment(a, lost)

OpeningPr == \E c \in DOMAIN orch.calls : create_plan_pr(c)

Validating ==
    \E c \in DOMAIN orch.calls : \E responses \in orch.responses : validate_returns(c, responses)

NextOrch ==
    \/ Ingest
    \/ OpeningPr

SpecOrch == InitOrch /\ [][NextOrch]_vars

RECURSIVE TypesWhere(_, _, _)
\* the event types of the events of log whose field has the value, in order
TypesWhere(log, field, value) ==
    IF log = <<>> THEN <<>>
    ELSE IF Head(log)[field] = value
         THEN <<Head(log).event_type>> \o TypesWhere(Tail(log), field, value)
         ELSE TypesWhere(Tail(log), field, value)

PipelineEvents ==
    <<"appointment_received", "risk_scored", "proposal_created", "proposal_signed">>

ExpectedEvents(c) ==
    IF orch.calls[c].pr_url # None
    THEN PipelineEvents \o <<"pr_opened">>
    ELSE PipelineEvents

Completed(c) == orch.calls[c].stage = "done" /\ orch.calls[c].compliant

IsPrefix(s, t) == Len(s) <= Len(t) /\ SubSeq(t, 1, Len(s)) = s

-----------------------------------------------------------------------------
(* Orchestrator with a compliance agent that asks a policy server *)

RejectCalls == 1

\* one response per action of the longest sequence
ResponseSeqs(kinds) == [1..MAX_MESSAGES_PER_DAY -> kinds]

RejectApps ==
    {[OrchestratorApp(TRUE, has_hmac_secret, {LowRisk, HighRisk}, RejectCalls)
        EXCEPT !.opa = TRUE,
               !.responses = ResponseSeqs({Allow, Deny, Unreachable})] :
        has_hmac_secret \in BOOLEAN}

InitReject == InitApps({NoWorker}, {WebhookApp("", FALSE, {}, 0)}, RejectApps)

NextReject ==
    \/ Ingest
    \/ Validating
    \/ OpeningPr

SpecReject == InitReject /\ [][NextReject]_vars

\* what validate gave for call c
ComplianceOf(c) ==
    validate(orch.calls[c].actions, OrchestratorProfile, orch.opa, orch.calls[c].responses)

Returned(c) == orch.calls[c].stage = "done"

\* C11: whenever validate returns non-compliant, process_appointment returns
\* compliant=false with the violation list, an empty hmac_signature and
\* pr_url=null, and the call has emitted nothing after risk_scored (no
\* proposal_created, proposal_signed or pr_opened) and attempted no PR.
C11_Rejection ==
    \A c \in DOMAIN orch.calls :
        LET call == orch.calls[c]
            rejected == /\ call.stage \in {"pr", "done"}
                        /\ ~ComplianceOf(c).raised
                        /\ ~ComplianceOf(c).compliant
        IN  /\ rejected =>
                  /\ Returned(c)
                  /\ ~call.compliant
                  /\ call.violations = ComplianceOf(c).violations
                  /\ call.violations # <<>>
                  /\ call.hmac_signature = ""
                  /\ call.pr_url = None
                  /\ call.pr_outcome = "none"
                  /\ TypesWhere(events, "job", c) = <<"appointment_received", "risk_scored">>
            /\ Returned(c) /\ ~call.compliant => rejected

\* a three-action proposal rejected for a denial and an unreachable server,
\* by an orchestrator that has a secret and a PR creator
C11_Witness ==
    \E c \in DOMAIN orch.calls :
        /\ Returned(c) /\ ~orch.calls[c].compliant
        /\ orch.calls[c].violations = <<"quiet_hours", "OPA_Unavailable">>
        /\ orch.hmac_secret # "" /\ submits

-----------------------------------------------------------------------------
(* Orchestrator with an event store whose appends may raise, or without one,
   and with or without PR creator and token *)

PipelineCalls == 1

AllEvents ==
    {"appointment_received", "risk_scored", "proposal_created", "proposal_signed",
     "pr_opened"}

PipelineApps ==
    {[OrchestratorApp(has_github_pr, has_hmac_secret, OrchAppointments, PipelineCalls)
        EXCEPT !.github_token = has_token, !.event_store = has_store,
               !.losses = {{}, {"risk_scored"}, {"proposal_created", "pr_opened"}, AllEvents}] :
        has_github_pr \in BOOLEAN, has_token \in BOOLEAN, has_hmac_secret \in BOOLEAN,
        has_store \in BOOLEAN}

InitPipeline == InitApps({NoWorker}, {WebhookApp("", FALSE, {}, 0)}, PipelineApps)

SpecPipeline == InitPipeline /\ [][NextOrch]_vars

\* the fields of OrchestratorResult
Result(call) ==
    [risk_level |-> call.risk.level, risk_score |-> call.risk.score,
     actions |-> call.actions, hmac_signature |-> call.hmac_signature,
     pr_url |-> call.pr_url, compliant |-> call.compliant,
     violations |-> call.violations]

\* the result as appointment, settings and PR outcome alone determine it
ExpectedResult(call) ==
    LET risk == score(call.appointment)
    IN  [risk_level |-> risk.level, risk_score |-> risk.score,
         actions |-> _resolve_scheduled_times(
                         generate_sequence(risk.level, OrchestratorProfile),
                         call.appointment.scheduled_at),
         hmac_signature |-> Signature(call),
         pr_url |-> IF call.pr_outcome = "ok" THEN "pr-url" ELSE None,
         compliant |-> TRUE, violations |-> <<>>]

\* C12: the result of process_appointment is the same whether every append
\* succeeds, some or all appends raise, or no event store is configured, and
\* no call is aborted by a failed append.
C12_FireAndForget ==
    \A c \in DOMAIN orch.calls :
        /\ orch.calls[c].stage # "raised"
        /\ Returned(c) => Result(orch.calls[c]) = ExpectedResult(orch.calls[c])

\* a call whose five appends all raised returned a signed plan and a PR URL
C12_Witness ==
    \E c \in DOMAIN orch.calls :
        /\ Returned(c)
        /\ orch.event_store /\ orch.calls[c].lost = AllEvents
        /\ events = <<>>
        /\ orch.calls[c].hmac_signature # ""
        /\ orch.calls[c].pr_url = "pr-url"

\* C13: when PR creator and token are configured and create_plan_pr raises,
\* the call returns compliant=true with the computed signature and
\* pr_url=null and emits no pr_opened; when the token or the creator is
\* missing, no submission is attempted and pr_url is null.
C13_PrNonFatal ==
    \A c \in DOMAIN orch.calls :
        LET call == orch.calls[c]
            configured == orch.github_pr /\ orch.github_token
        IN  /\ Returned(c) /\ call.pr_outcome = "raise" =>
                  /\ configured
                  /\ call.compliant
                  /\ call.hmac_signature = Signature(call)
                  /\ call.pr_url = None
                  /\ \A k \in DOMAIN events :
                        events[k].job = c => events[k].event_type # "pr_opened"
            /\ ~configured =>
                  /\ call.stage # "pr"
                  /\ call.pr_outcome = "none"
                  /\ call.pr_url = None
            /\ configured /\ Returned(c) => call.pr_outcome \in {"ok", "raise"}

\* a signed plan returned after create_plan_pr raised
C13_Witness ==
    \E c \in DOMAIN orch.calls :
        /\ Returned(c) /\ orch.github_pr /\ orch.github_token
        /\ orch.calls[c].pr_outcome = "raise"
        /\ orch.calls[c].hmac_signature # ""
        /\ orch.event_store /\ orch.calls[c].lost = {}

-----------------------------------------------------------------------------
(* storage/event_store.py InMemoryEventStore.append *)

MaxAppends == 3

\* a key that Python takes as true: neither None nor the empty string
IsKey(idempotency_key) == idempotency_key \notin {NoKey, ""}

\* str(uuid.uuid4()) of the n-th event stored
EventId(n) == "event-" \o ToString(n)

\* the last list_events call: its arguments and what it returned
NoListing ==
    [done |-> FALSE, aggregate_id |-> NoKey, event_type |-> NoKey, limit |-> 0,
     result |-> <<>>]

MemoryStore(max_appends) ==
    [stage |-> "store", events |-> <<>>, seen_keys |-> {}, history |-> <<>>,
     listed |-> NoListing, max_appends |-> max_appends]

StoredEvent(event_id, aggregate_id, event_type, payload, idempotency_key) ==
    [event_id |-> event_id, aggregate_id |-> aggregate_id, event_type |-> event_type,
     payload |-> payload, actor |-> "system", created_at |-> now,
     idempotency_key |-> IF IsKey(idempotency_key) THEN idempotency_key ELSE NoKey]

\* the event_id of the first stored event with the key
FirstWithKey(log, idempotency_key) ==
    log[CHOOSE i \in DOMAIN log :
            /\ log[i].idempotency_key = idempotency_key
            /\ \A j \in 1..(i - 1) : log[j].idempotency_key # idempotency_key].event_id

\* append without the check of _seen_keys
append_unchecked(st, aggregate_id, event_type, payload, idempotency_key) ==
    LET event_id == EventId(Len(st.events) + 1)
    IN  [events |-> Append(st.events, StoredEvent(event_id, aggregate_id, event_type,
                                                  payload, idempotency_key)),
         seen_keys |-> st.seen_keys \cup (IF IsKey(idempotency_key)
                                          THEN {idempotency_key} ELSE {}),
         event_id |-> event_id]

\* InMemoryEventStore.append: the store afterwards and the event_id returned
append(st, aggregate_id, event_type, payload, idempotency_key) ==
    IF IsKey(idempotency_key) /\ idempotency_key \in st.seen_keys
    THEN [events |-> st.events, seen_keys |-> st.seen_keys,
          event_id |-> FirstWithKey(st.events, idempotency_key)]
    ELSE LET event_id == EventId(Len(st.events) + 1)
         IN  [events |-> Append(st.events, StoredEvent(event_id, aggregate_id, event_type,
                                                       payload, idempotency_key)),
              seen_keys |-> st.seen_keys \cup (IF IsKey(idempotency_key)
                                               THEN {idempotency_key} ELSE {}),
              event_id |-> event_id]

StoreUnchanged ==
    UNCHANGED <<now, cfg, promotions, queue, retry, dlq, sent, rate, consent, events, wrk,
                calls, jobs, produced, replays, web, orch, plan, agents>>

\* one call of append by a client of the store
AppendCall(aggregate_id, event_type, payload, idempotency_key) ==
    /\ store.stage = "store"
    /\ Len(store.history) < store.max_appends
    /\ LET after == append(store, aggregate_id, event_type, payload, idempotency_key)
       IN  store' = [store EXCEPT
                        !.events = after.events, !.seen_keys = after.seen_keys,
                        !.history = Append(@, [aggregate_id |-> aggregate_id,
                                               event_type |-> event_type,
                                               payload |-> payload,
                                               idempotency_key |-> idempotency_key,
                                               event_id |-> after.event_id,
                                               stored |-> Len(after.events) - Len(store.events)])]
    /\ StoreUnchanged

StoreKeys == {NoKey, "", "key-1", "key-2"}

InitStore == InitLib({NoPlan}, {NoAgents}, {MemoryStore(MaxAppends)})

NextStore ==
    \E aggregate_id \in {"APT-100"}, payload \in {"first", "second"}, idempotency_key \in StoreKeys :
        AppendCall(aggregate_id, "risk_scored", payload, idempotency_key)

SpecStore == InitStore /\ [][NextStore]_vars

\* the calls before call i that carried the same key
EarlierWithKey(i) ==
    {j \in 1..(i - 1) : store.history[j].idempotency_key = store.history[i].idempotency_key}

\* the stored event with the id
EventsWithId(event_id) == {k \in DOMAIN store.events : store.events[k].event_id = event_id}

-----------------------------------------------------------------------------
(* storage/event_store.py InMemoryEventStore.list_events *)

DEFAULT_LIMIT == 100

\* an argument that Python takes as true: neither None nor the empty string
Given(v) == v \notin {NoKey, ""}

Reverse(seq) == [i \in DOMAIN seq |-> seq[Len(seq) + 1 - i]]

\* seq[:stop] of Python: a negative stop counts from the end
Slice(seq, stop) ==
    IF stop >= 0 THEN SubSeq(seq, 1, Min(stop, Len(seq)))
    ELSE SubSeq(seq, 1, Max(Len(seq) + stop, 0))

\* InMemoryEventStore.list_events: the list returned
list_events(log, aggregate_id, event_type, limit) ==
    LET by_aggregate == IF Given(aggregate_id)
                        THEN SelectSeq(log, LAMBDA e : e.aggregate_id = aggregate_id)
                        ELSE log
        by_type == IF Given(event_type)
                   THEN SelectSeq(by_aggregate, LAMBDA e : e.event_type = event_type)
                   ELSE by_aggregate
    IN  Slice(Reverse(by_type), limit)

\* one call of list_events by a client of the store
ListCall(aggregate_id, event_type, limit) ==
    /\ store.stage = "store"
    /\ store' = [store EXCEPT !.listed =
                    [done |-> TRUE, aggregate_id |-> aggregate_id,
                     event_type |-> event_type, limit |-> limit,
                     result |-> list_events(store.events, aggregate_id, event_type, limit)]]
    /\ StoreUnchanged

\* aggregate ids as Worker._execute and the orchestrator derive them: an
\* appointment id, or the empty string of an envelope whose ids are empty
AggregateIds == {"", "APT-100"}
EventTypes == {"risk_scored", "pr_opened"}
Limits == {-1, 0, 1, 2, DEFAULT_LIMIT}

Appending ==
    \E aggregate_id \in AggregateIds, event_type \in EventTypes :
        AppendCall(aggregate_id, event_type, "payload", NoKey)

Listing ==
    \E aggregate_id \in AggregateIds \cup {NoKey}, event_type \in EventTypes \cup {NoKey}, limit \in Limits :
        ListCall(aggregate_id, event_type, limit)

NextEvents ==
    \/ Appending
    \/ Listing

SpecEvents == InitStore /\ [][NextEvents]_vars

\* the stored events an argument of list_events selects: all when it is None
Matching(log, aggregate_id, event_type) ==
    SelectSeq(log, LAMBDA e :
        /\ aggregate_id # NoKey => e.aggregate_id = aggregate_id
        /\ event_type # NoKey => e.event_type = event_type)

\* the last list_events call returned the matching events newest first, cut
\* to the `limit` most recently appended
ListedAsClaimed ==
    store.listed.done =>
        LET matching == Matching(store.events, store.listed.aggregate_id,
                                 store.listed.event_type)
            newest == Reverse(matching)
        IN  store.listed.result =
                SubSeq(newest, 1, Min(Max(store.listed.limit, 0), Len(newest)))

\* C21: the event log is append-only and order-preserving: every call of
\* append or list_events leaves the stored events in place and unchanged,
\* the log growing only at its end, and list_events(aggregate_id, event_type,
\* limit) returns exactly the matching events, newest first, cut to the
\* `limit` most recently appended.
C21_AppendOnlyListClaim ==
    [][/\ IsPrefix(store.events, store.events')
       /\ ListedAsClaimed']_vars

-----------------------------------------------------------------------------
(* consent.py InMemoryConsentStore: grant and revoke calls on one store,
   for patient ids and channels with and without a colon *)

MaxConsentCalls == 3

\* the calls made on the store, in order
ConsentLog(max_calls) == [stage |-> "consent", history |-> <<>>, max_calls |-> max_calls]

ConsentPatients == {"PAT-001", "PAT-001:sms"}
ConsentChannels == {"sms", "reminder", "sms:reminder"}

\* a worker configuration with a consent store and nothing to process
ConsentOnly == WorkerConfig(TRUE, 0, 0, 0, DEFAULT_DEDUP_TTL, 0, "up", {}, 0, 0)

InitConsentStore ==
    InitState({ConsentOnly}, {WebhookApp("", FALSE, {}, 0)}, {OrchestratorApp(FALSE, FALSE, {}, 0)},
              {NoPlan}, {NoAgents}, {ConsentLog(MaxConsentCalls)})

Granting == \E patient_id \in ConsentPatients, channel \in ConsentChannels : grant(patient_id, channel)

Revoking == \E patient_id \in ConsentPatients, channel \in ConsentChannels : revoke(patient_id, channel)

\* datetime.now(UTC): the clock moves on between two calls, or does not
Elapse ==
    /\ store.stage = "consent"
    /\ now < Len(store.history)
    /\ now' = now + 1
    /\ UNCHANGED <<cfg, promotions, queue, retry, dlq, sent, rate, consent, events, wrk,
                   calls, jobs, produced, replays, web, orch, plan, agents, store>>

NextConsentStore ==
    \/ Granting
    \/ Revoking
    \/ Elapse

SpecConsentStore == InitConsentStore /\ [][NextConsentStore]_vars

\* the calls made so far on the pair
CallsOn(history, patient_id, channel) ==
    {i \in DOMAIN history :
        history[i].patient_id = patient_id /\ history[i].channel = channel}

\* the most recent call on the pair exists and was a grant
LastWasGrant(history, patient_id, channel) ==
    LET on == CallsOn(history, patient_id, channel)
    IN  /\ on # {}
        /\ history[CHOOSE i \in on : \A j \in on : j <= i].op = "grant"

\* the call that this step made, if it made one
CallMade == Len(store'.history) = Len(store.history) + 1
LastCall == store'.history[Len(store'.history)]

\* has_consent follows the calls on each pair of the set
FollowsCalls(pairs) ==
    \A pair \in pairs :
        has_consent(consent, pair[1], pair[2])
            <=> LastWasGrant(store.history, pair[1], pair[2])

\* the step, when it is a call, is a no-op where the claim says so and
\* leaves the other pairs of the set as they were
StepAsClaimed(pairs) ==
    CallMade /\ <<LastCall.patient_id, LastCall.channel>> \in pairs =>
        /\ (LastCall.op = "revoke"
            /\ ~has_consent(consent, LastCall.patient_id, LastCall.channel))
           => consent' = consent
        /\ \A pair \in pairs :
              pair # <<LastCall.patient_id, LastCall.channel>> =>
                  (has_consent(consent', pair[1], pair[2])
                      <=> has_consent(consent, pair[1], pair[2]))

AllPairs == ConsentPatients \X ConsentChannels

\* C22: after any sequence of grant and revoke calls, has_consent(p, c) is
\* true iff the most recent call on (p, c) exists and was a grant; a revoke
\* of a pair never granted or already revoked changes nothing (the record
\* keeps its revoked_at); a grant after a revoke restores consent; a call on
\* (p, c) never changes has_consent of another (patient, channel) pair.
C22_ConsentStateMachineClaim ==
    [][store.stage = "consent" =>
          /\ StepAsClaimed(AllPairs)
          /\ FollowsCalls(AllPairs)']_vars

\* the pairs whose patient id and channel hold no colon: their keys differ
PlainPairs == {"PAT-001"} \X {"sms", "reminder"}

\* the same for calls on pairs whose keys are pairwise different
C22_StateMachineOnDistinctKeys ==
    [][(/\ store.stage = "consent"
        /\ \A i \in DOMAIN store'.history :
              <<store'.history[i].patient_id, store'.history[i].channel>> \in PlainPairs)
       => /\ StepAsClaimed(PlainPairs)
          /\ FollowsCalls(PlainPairs)']_vars

-----------------------------------------------------------------------------
(* The order of the checks in Worker._execute: a consent store, a quiet
   window over the first hour of the day, a rate limit of one per window, and
   envelopes that fail several checks at once *)

OrderJobs == 3

OrderConfigs ==
    { WorkerConfig(TRUE, 0, 1, 1, DEFAULT_DEDUP_TTL, DEFAULT_MAX_RETRIES, "flaky",
                   {TestAction, FaxAction, WebhookAction}, OrderJobs, OrderJobs) }

InitOrder == InitWith(OrderConfigs)

NextOrder ==
    \/ Produce
    \/ RunOnceStep
    \/ grant("PAT-001", "sms")
    \/ Tick

SpecOrder == InitOrder /\ [][NextOrder]_vars

\* the checks of the pipeline, in the order of _execute
PipelineOrder ==
    <<"adapter", "consent", "quiet_hours", "rate_limit", "dedup", "adapter_execution">>

\* the worker is done with the job
Finished(j) == \A w \in Workers : wrk[w].job # j

\* the outcome events of the job: everything but the retry bookkeeping
OutcomeEvents(j) ==
    {i \in EventsOfJob(j) :
        events[i].event_type \in {"action_failed", "action_blocked", "action_executed"}}

\* C23: the checks of a dequeued job run in the order adapter resolution,
\* consent, quiet hours, rate limit, dedup, adapter execution; the first
\* check that fails ends the job, its reason is the reason of the job's one
\* outcome event, and no later check and no adapter call is made for the job.
C23_PipelineOrder ==
    \A j \in DOMAIN jobs :
        LET checked == jobs[j].checked
            n == Len(checked)
        IN  /\ n >= 1 /\ n <= Len(PipelineOrder)
            /\ \A k \in 1..n : checked[k].check = PipelineOrder[k]
            /\ \A k \in 1..(n - 1) : checked[k].reason = None
            /\ (checked[1].reason = "no_adapter")
                  <=> jobs[j].action.action_type \notin cfg.adapters
            /\ n >= 2 => (checked[2].reason = None <=> jobs[j].consent_seen = "active")
            /\ n >= 3 => checked[3].reason =
                            _check_quiet_hours(cfg.quiet_start, cfg.quiet_end,
                                               LocalHour(jobs[j].at))
            /\ (\E c \in calls : c.job = j) <=> n = Len(PipelineOrder)
            /\ Finished(j) =>
                  /\ checked[n].reason # None \/ n = Len(PipelineOrder)
                  /\ \E i \in OutcomeEvents(j) :
                        /\ OutcomeEvents(j) = {i}
                        /\ events[i].payload.reason = checked[n].reason
                        /\ events[i].event_type =
                              (IF n = 1 THEN "action_failed"
                               ELSE IF n < Len(PipelineOrder) THEN "action_blocked"
                               ELSE IF checked[n].reason = None THEN "action_executed"
                               ELSE "action_failed")

\* a job rate-limited although its appointment was also a duplicate, a job
\* refused for lack of consent inside the quiet window
C23_Witness ==
    \E j, k \in DOMAIN jobs :
        /\ Finished(j) /\ Finished(k)
        /\ jobs[j].checked[Len(jobs[j].checked)].reason = "rate_limited"
        /\ \E m \in sent : m.appointment_id = jobs[j].action.appointment_id
        /\ jobs[k].checked[Len(jobs[k].checked)].reason = "no_consent"
        /\ _check_quiet_hours(cfg.quiet_start, cfg.quiet_end, LocalHour(jobs[k].at)) # None

-----------------------------------------------------------------------------
(* Retry promotion by one run_loop worker: envelopes without appointment and
   patient id (no dedup, no rate limit), an adapter that may fail, retries
   falling due at different times *)

LoopJobs == 2
LoopDequeues == 3
MaxPromotions == 4

\* a second envelope of the merge webhook
WebhookAction43 == Envelope("execute_plan", "", NoKey, NoKey, "43")

\* the worker runs run_loop
RunLoop(config, max_promotions) ==
    [config EXCEPT !.loop = TRUE, !.max_promotions = max_promotions]

LoopConfigs ==
    { RunLoop(WorkerConfig(FALSE, 0, 0, DEFAULT_RATE_LIMIT, DEFAULT_DEDUP_TTL,
                           DEFAULT_MAX_RETRIES, "flaky",
                           {WebhookAction, WebhookAction43}, LoopJobs, LoopDequeues),
              MaxPromotions) }

InitLoop == InitWith(LoopConfigs)

RunLoopStep ==
    \/ PromoteRead(TheWorker)
    \/ PromoteMove(TheWorker)
    \/ BlpopTimeout(TheWorker)
    \/ Dequeue(TheWorker)
    \/ Rails(TheWorker)
    \/ Dedup(TheWorker)
    \/ Execute(TheWorker)

NextLoop ==
    \/ Produce
    \/ RunLoopStep
    \/ Tick

SpecLoop == InitLoop /\ [][NextLoop]_vars

\* seq[from..] holds the members in the given order, among whatever else
RECURSIVE HoldsInOrder(_, _)
HoldsInOrder(seq, members) ==
    IF members = <<>> THEN TRUE
    ELSE IF seq = <<>> THEN FALSE
    ELSE IF Head(seq) = Head(members) THEN HoldsInOrder(Tail(seq), Tail(members))
    ELSE HoldsInOrder(Tail(seq), members)

\* the step in which process_retries call i returns
Returns(i) ==
    /\ i \in DOMAIN promotions'
    /\ promotions'[i].returned # NotReturned
    /\ i \in DOMAIN promotions => promotions[i].returned = NotReturned

\* what the claim says of a call when it returns
Promoted(i) ==
    LET call == promotions[i] IN
    /\ call.returned = Cardinality(call.due)
    /\ \A z \in call.due : z \notin retry
    /\ \A z \in call.kept : z \in retry
    /\ IsPrefix(call.queue, queue)
    /\ \E seq \in [1..Cardinality(call.due) -> call.due] :
          /\ \A m, n \in DOMAIN seq : m # n => seq[m] # seq[n]
          /\ \A m, n \in DOMAIN seq : m < n => seq[m].score <= seq[n].score
          /\ HoldsInOrder(SubSeq(queue, Len(call.queue) + 1, Len(queue)),
                       [n \in DOMAIN seq |-> seq[n].member])
    /\ Len(queue) >= Len(call.queue) + Cardinality(call.due)

\* every job was dequeued after a process_retries call that returned since
\* the job before it
PromotedBeforeDequeue ==
    \A j \in DOMAIN jobs :
        \E i \in DOMAIN promotions :
            promotions[i].returned # NotReturned /\ promotions[i].jobs = j - 1

\* C24: with one worker, process_retries moves every retry entry whose score
\* is <= now to the right end of the main queue, removes exactly those from
\* the retry set, leaves the entries with a later score as they are and
\* returns the number moved, 0 when none is due; run_loop makes this call
\* before every blocking dequeue.
C24_Promotion ==
    [][/\ \A i \in DOMAIN promotions' : Returns(i) => Promoted(i)'
       /\ PromotedBeforeDequeue']_vars

\* a call that moved one entry and left a later one in the retry set, after a
\* call that found nothing due
C24_Witness ==
    \E i, k \in DOMAIN promotions :
        /\ promotions[i].returned = 1
        /\ promotions[i].kept # {}
        /\ promotions[k].returned = 0
        /\ promotions[k].kept # {}
        /\ Len(jobs) > promotions[i].jobs

-----------------------------------------------------------------------------
(* Retry promotion by workers running in parallel (SpecRetry) *)

\* worker w pushes one of the members it read in this step
PromotionTurn(w) ==
    /\ wrk[w].pc = "promote"
    /\ wrk'[w] # wrk[w]

\* C25: when two or more workers run process_retries at once over the same
\* retry set, every due entry is pushed onto the main queue exactly once,
\* never duplicated and never lost: promotion leaves the number of envelopes
\* in main queue plus retry set unchanged.
C25_ParallelPromotionClaim ==
    [][\A w \in Workers :
          PromotionTurn(w) =>
              Len(queue') + Cardinality(retry') = Len(queue) + Cardinality(retry)]_vars

-----------------------------------------------------------------------------
(* The retry / DLQ decision: an adapter that is down, envelopes that arrive
   without and with a retry count, retry limits below, at and above the
   length of the backoff list *)

ScheduleDequeues == 4

\* an envelope that was replayed from the DLQ before
ReplayedAction == [WebhookAction43 EXCEPT !.retry_count = 0]

\* Worker(retry_backoff=...)
WithBackoff(config, retry_backoff) == [config EXCEPT !.backoff = retry_backoff]

ScheduleConfigs ==
    { WithBackoff(WorkerConfig(FALSE, 0, 0, DEFAULT_RATE_LIMIT, DEFAULT_DEDUP_TTL,
                               m, "down", {WebhookAction, ReplayedAction},
                               1, ScheduleDequeues), b) :
        m \in {0, 1, DEFAULT_MAX_RETRIES}, b \in {<<60>>, <<60, 300>>, DEFAULT_BACKOFF} }

InitSchedule == InitWith(ScheduleConfigs)

NextSchedule ==
    \/ Produce
    \/ WorkerStep
    \/ Tick

SpecSchedule == InitSchedule /\ [][NextSchedule]_vars

\* the adapter raised in this step: action_failed{adapter_error} is the first
\* event the step adds
AdapterFailed ==
    /\ Len(events') > Len(events)
    /\ events'[Len(events) + 1].event_type = "action_failed"
    /\ events'[Len(events) + 1].payload.reason = "adapter_error"

\* what the claim says of the step after the adapter raised for `action`
Scheduled(action) ==
    LET previous == IF action.retry_count = NoRetryCount THEN 0 ELSE action.retry_count
        attempt == previous + 1
        counted == [action EXCEPT !.retry_count = attempt]
        delay == IF attempt <= Len(cfg.backoff) THEN cfg.backoff[attempt]
                 ELSE cfg.backoff[Len(cfg.backoff)]
        entry == [member |-> counted, score |-> now + delay]
        decision == events'[Len(events) + 2]
    IN  /\ Len(events') = Len(events) + 2
        /\ IF attempt > cfg.max_retries
           THEN /\ dlq' = Append(dlq, counted)
                /\ retry' = retry
                /\ decision.event_type = "action_dead_lettered"
                /\ decision.payload.action = counted
           ELSE /\ dlq' = dlq
                /\ entry \in retry'
                /\ \A z \in retry' : z = entry \/ (z \in retry /\ z.member # counted)
                /\ \A z \in retry : z.member # counted => z \in retry'
                /\ decision.event_type = "action_retry_scheduled"
                /\ decision.payload.attempt = attempt
                /\ decision.payload.delay_seconds = delay

\* C26: _schedule_retry takes attempt = previous _retry_count (0 if absent)
\* + 1; iff attempt > max_retries the envelope goes to the DLQ with
\* _retry_count = attempt and action_dead_lettered is emitted; otherwise it
\* goes to the retry set with _retry_count = attempt and score now +
\* backoff[min(attempt-1, len(backoff)-1)] and action_retry_scheduled is
\* emitted with that attempt and delay; never both, and past the end of the
\* backoff list the last delay is reused.
C26_RetryOrDeadLetter ==
    [][AdapterFailed => Scheduled(events'[Len(events) + 1].payload.action)]_vars

\* an attempt past the end of the backoff list was scheduled with the last
\* delay, and the envelope was dead-lettered in the end
C26_Witness ==
    /\ \E i \in EventsOfType("action_retry_scheduled") :
          /\ events[i].payload.attempt > Len(cfg.backoff)
          /\ events[i].payload.delay_seconds = cfg.backoff[Len(cfg.backoff)]
    /\ \E i \in EventsOfType("action_dead_lettered") :
          events[i].payload.action.retry_count = cfg.max_retries + 1
    /\ dlq # <<>>

-----------------------------------------------------------------------------
(* DLQ replay: an adapter that is down, envelopes dead-lettered at their first
   or second failure, an operator who replays none, some or all of them *)

ReplayJobs == 2
ReplayDequeues == 3

ReplayConfigs ==
    { WorkerConfig(FALSE, 0, 0, DEFAULT_RATE_LIMIT, DEFAULT_DEDUP_TTL,
                   m, "down", {WebhookAction, WebhookAction43},
                   ReplayJobs, ReplayDequeues) : m \in {0, 1} }

\* max_items of the operator's call; the default is 100
DEFAULT_MAX_ITEMS == 100
MaxItems == {0, 1, DEFAULT_MAX_ITEMS}

InitReplay == InitWith(ReplayConfigs)

Replay == \E max_items \in MaxItems : replay_dlq(max_items)

NextReplay ==
    \/ Produce
    \/ ProcessRetriesStep
    \/ RunOnceStep
    \/ Replay
    \/ Tick

SpecReplay == InitReplay /\ [][NextReplay]_vars

\* C27: replay_dlq(N) removes min(N, DLQ length) envelopes from the head of
\* the DLQ in order, pushes each onto the right end of the main queue in the
\* same order with _retry_count reset to 0 and all other fields unchanged,
\* leaves the remaining DLQ entries and the retry set untouched, and returns
\* the number replayed (0 for an empty DLQ).
C27_ReplayDlq ==
    [][Len(replays') = Len(replays) + 1 =>
          LET call == replays'[Len(replays')]
              n == IF call.max_items < Len(dlq) THEN call.max_items ELSE Len(dlq)
          IN  /\ call.returned = n
              /\ Len(dlq') = Len(dlq) - n
              /\ \A i \in 1..Len(dlq') : dlq'[i] = dlq[n + i]
              /\ Len(queue') = Len(queue) + n
              /\ \A i \in 1..Len(queue) : queue'[i] = queue[i]
              /\ \A i \in 1..n :
                    /\ queue'[Len(queue) + i].retry_count = 0
                    /\ Origin(queue'[Len(queue) + i]) = Origin(dlq[i])
              /\ retry' = retry]_vars

\* a call replayed the first of several dead-lettered envelopes, which is in
\* the main queue with its count reset
C27_Witness ==
    /\ \E i \in DOMAIN replays :
          /\ replays[i].returned = 1
          /\ replays[i].left >= 1
    /\ \E i \in DOMAIN queue : queue[i].retry_count = 0

-----------------------------------------------------------------------------
(* Order of the main queue with one worker (SpecReplay): producers, retries
   promoted from the retry set and envelopes replayed from the DLQ *)

\* C28: with a single worker, jobs are dequeued from cacp:actions in the order
\* they were enqueued (enqueue pushes at the right, the worker pops at the
\* left); a retried or replayed envelope re-enters at the right end, behind
\* every job that was already in the main queue when it was promoted.
C28_QueueFifo ==
    [][/\ Len(jobs') > Len(jobs) =>
             /\ queue # <<>>
             /\ jobs'[Len(jobs')].action = Head(queue)
             /\ queue' = Tail(queue)
       /\ Len(jobs') = Len(jobs) => IsPrefix(queue, queue')
       /\ Len(produced') > Len(produced) =>
             queue' = Append(queue, produced'[Len(produced')])
       /\ retry' \subseteq retry /\ retry' # retry =>
             \E z \in retry \ retry' : queue' = Append(queue, z.member)
       /\ Len(dlq') < Len(dlq) =>
             /\ Len(queue') = Len(queue) + Len(dlq) - Len(dlq')
             /\ \A i \in 1..(Len(dlq) - Len(dlq')) :
                   Origin(queue'[Len(queue) + i]) = Origin(dlq[i])]_vars

\* an envelope replayed while a new job of another envelope waited in the
\* main queue was dequeued right after that job
C28_Witness ==
    /\ \E r \in DOMAIN replays : replays[r].returned >= 1 /\ replays[r].queued >= 1
    /\ \E j, k \in DOMAIN jobs :
          /\ k = j + 1
          /\ jobs[k].action.retry_count = 0
          /\ jobs[j].action.retry_count = NoRetryCount
          /\ Origin(jobs[j].action) # Origin(jobs[k].action)

-----------------------------------------------------------------------------
(* The quiet-hours window: one job, arriving at any hour of the day, at a
   worker configured with any pair of hours *)

\* quiet_hours_start and quiet_hours_end: the hours of a day and its end
WindowHours == 0..HOURS_PER_DAY

QuietConfigs ==
    { WorkerConfig(FALSE, quiet_start, quiet_end, DEFAULT_RATE_LIMIT, DEFAULT_DEDUP_TTL,
                   DEFAULT_MAX_RETRIES, "up", {WebhookAction}, 1, 1) :
        quiet_start \in WindowHours, quiet_end \in WindowHours }

InitQuiet == InitWith(QuietConfigs)

\* an hour passes before the job arrives
HourPasses ==
    /\ produced = <<>>
    /\ now + SECONDS_PER_HOUR <= MaxTime
    /\ now' = now + SECONDS_PER_HOUR
    /\ UNCHANGED <<web, orch, plan, agents, store>>
    /\ UNCHANGED <<cfg, promotions, queue, retry, dlq, sent, rate, consent, events, wrk,
                   calls, jobs, produced, replays>>

NextQuiet ==
    \/ HourPasses
    \/ Produce
    \/ RunOnceStep

SpecQuiet == InitQuiet /\ [][NextQuiet]_vars

\* h lies in [quiet_start, quiet_end), a window that wraps across midnight
\* when it starts after its end and is empty when it starts at its end
InWindow(h, quiet_start, quiet_end) ==
    IF quiet_start < quiet_end THEN quiet_start <= h /\ h < quiet_end
    ELSE IF quiet_start > quiet_end THEN h >= quiet_start \/ h < quiet_end
    ELSE FALSE

\* job j was blocked with quiet_hours
QuietBlocked(j) ==
    \E i \in EventsOfJob(j) :
        /\ events[i].event_type = "action_blocked"
        /\ events[i].payload.reason = "quiet_hours"

\* C29: for every local hour h in 0..23 and every configured (quiet_start,
\* quiet_end), the rail blocks with quiet_hours iff h lies in the half-open
\* window [quiet_start, quiet_end), which wraps across midnight when
\* quiet_start > quiet_end and is empty when quiet_start = quiet_end.
C29_QuietWindow ==
    \A j \in DOMAIN jobs :
        \A i \in DOMAIN jobs[j].checked :
            jobs[j].checked[i].check = "quiet_hours" =>
                LET h == (jobs[j].at \div SECONDS_PER_HOUR) % HOURS_PER_DAY
                    inside == InWindow(h, cfg.quiet_start, cfg.quiet_end)
                IN  /\ h \in 0..(HOURS_PER_DAY - 1)
                    /\ jobs[j].checked[i].reason = "quiet_hours" <=> inside
                    /\ QuietBlocked(j) <=> inside
                    /\ inside => calls = {}

\* a job was blocked in the early hours of a window that wraps across midnight
C29_Witness ==
    /\ cfg.quiet_start > cfg.quiet_end
    /\ \E j \in DOMAIN jobs :
          /\ QuietBlocked(j)
          /\ (jobs[j].at \div SECONDS_PER_HOUR) % HOURS_PER_DAY < cfg.quiet_end
          /\ jobs[j].at >= SECONDS_PER_HOUR

-----------------------------------------------------------------------------
(* Audit events of the worker: an event store whose appends succeed, one that
   refuses the action_executed events, and one that is down *)

AuditJobs == 2
AuditDequeues == 3

WorkerEventTypes ==
    {"action_failed", "action_blocked", "action_executed",
     "action_retry_scheduled", "action_dead_lettered"}

\* the event types whose append raises in the event store
AppendFailures == {{}, {"action_executed"}, WorkerEventTypes}

AuditConfigs ==
    { [WorkerConfig(TRUE, 0, 1, 1, DEFAULT_DEDUP_TTL, 1, "flaky",
                    {TestAction, FaxAction}, AuditJobs, AuditDequeues)
          EXCEPT !.append_raises = raises] : raises \in AppendFailures }

InitAudit == InitWith(AuditConfigs)

NextAudit ==
    \/ Produce
    \/ ProcessRetriesStep
    \/ RunOnceStep
    \/ grant("PAT-001", "sms")
    \/ Tick

SpecAudit == InitAudit /\ [][NextAudit]_vars

\* one of the four primary outcomes
PrimaryOutcome(e) ==
    \/ e.event_type = "action_failed" /\ e.payload.reason \in {"no_adapter", "adapter_error"}
    \/ e.event_type = "action_blocked" /\ e.payload.reason # None
    \/ e.event_type = "action_executed"

AuditComplete ==
    \A j \in DOMAIN jobs :
        /\ Finished(j) =>
              \E i \in EventsOfJob(j) :
                  /\ PrimaryOutcome(events[i])
                  /\ events[i].aggregate_id = AggregateId(jobs[j].action)
                  /\ \A k \in EventsOfJob(j) : PrimaryOutcome(events[k]) => k = i
        /\ \A i \in EventsOfJob(j) :
              events[i].event_type = "action_executed" =>
                  \E c \in calls : c.job = j /\ c.outcome = "ok"

\* C30: with an event store configured, every job taken off the main queue
\* produces exactly one primary outcome event for its aggregate, one of
\* action_failed{no_adapter}, action_blocked{reason}, action_executed and
\* action_failed{adapter_error}; no job is consumed without an event, and
\* action_executed is emitted only after the adapter returned without raising.
C30_AuditCompleteClaim == cfg.event_store => AuditComplete

\* the same while every append to the event store succeeds
C30_AuditWithHealthyStore == (cfg.event_store /\ cfg.append_raises = {}) => AuditComplete

-----------------------------------------------------------------------------
(* Adapter failures: an adapter that may raise, retry limits 0 and 1, and
   event stores that refuse some or all of the worker's events *)

FailureJobs == 2
FailureDequeues == 3

FailingAppends ==
    {{}, {"action_failed"}, {"action_retry_scheduled", "action_dead_lettered"},
     WorkerEventTypes}

FailureConfigs ==
    { [WorkerConfig(FALSE, 0, 0, DEFAULT_RATE_LIMIT, DEFAULT_DEDUP_TTL, m, "flaky",
                    {WebhookAction, TestAction}, FailureJobs, FailureDequeues)
          EXCEPT !.append_raises = raises] :
        m \in {0, 1}, raises \in FailingAppends }

InitFailure == InitWith(FailureConfigs)

NextFailure ==
    \/ Produce
    \/ ProcessRetriesStep
    \/ RunOnceStep
    \/ Tick

SpecFailure == InitFailure /\ [][NextFailure]_vars

\* the events the step stored
StoredInStep == SubSeq(events', Len(events) + 1, Len(events'))

\* the event types the worker emits after the adapter raised for a job at the
\* given attempt, less those whose append raises
RECURSIVE StoredOf(_)
StoredOf(types) ==
    IF types = <<>> THEN <<>>
    ELSE IF Head(types) \in cfg.append_raises THEN StoredOf(Tail(types))
    ELSE <<Head(types)>> \o StoredOf(Tail(types))

\* what the claim says of the step in which the adapter raised on call c
FailureHandled(c) ==
    LET previous == IF c.action.retry_count = NoRetryCount THEN 0
                    ELSE c.action.retry_count
        attempt == previous + 1
        counted == [c.action EXCEPT !.retry_count = attempt]
        dead == attempt > cfg.max_retries
        emitted == <<"action_failed",
                     IF dead THEN "action_dead_lettered" ELSE "action_retry_scheduled">>
        stored == StoredInStep
    IN  /\ Len(stored) = Len(StoredOf(emitted))
        /\ \A i \in DOMAIN stored :
              /\ stored[i].event_type = StoredOf(emitted)[i]
              /\ stored[i].aggregate_id =
                    (IF Get(c.action.appointment_id, "") # ""
                     THEN c.action.appointment_id ELSE Get(c.action.pr_number, "unknown"))
              /\ stored[i].job = c.job
              /\ stored[i].event_type = "action_failed" =>
                    stored[i].payload.reason = "adapter_error"
        /\ IF dead
           THEN dlq' = Append(dlq, counted) /\ retry' = retry
           ELSE /\ dlq' = dlq
                /\ \E z \in retry' : z.member = counted /\ z.score > now
                /\ \A z \in retry : z.member # counted => z \in retry'
        /\ \A w \in Workers : wrk[w].job = c.job => wrk'[w].pc = "idle"

-----------------------------------------------------------------------------
(* What becomes of an envelope the worker took off the main queue (SpecOrder) *)

\* the worker finishes job j in this step
Finishes(j) ==
    /\ j \in DOMAIN jobs'
    /\ \A w \in Workers : wrk'[w].job # j
    /\ j \notin DOMAIN jobs \/ \E w \in Workers : wrk[w].job = j

\* C32: every envelope taken off the main queue is, when the worker has
\* finished processing it, either successfully executed by its adapter, in
\* the retry set or in the DLQ; an envelope never disappears from main queue,
\* retry set and DLQ without a successful adapter return.
C32_EntryLifecycleClaim ==
    [][\A j \in DOMAIN jobs' :
          Finishes(j) =>
              \/ \E c \in calls' : c.job = j /\ c.outcome = "ok"
              \/ \E z \in retry' : Origin(z.member) = Origin(jobs'[j].action)
              \/ \E i \in DOMAIN dlq' : Origin(dlq'[i]) = Origin(jobs'[j].action)]_vars

-----------------------------------------------------------------------------
(* The SMS adapter: envelopes with and without to_number and message, a
   provider that sends or fails *)

SmsJobs == 2

\* an SMS reminder as the worker's adapter expects it
SmsAction(to_number, message) ==
    [TestAction EXCEPT !.to_number = to_number, !.message = message]

SmsActions ==
    {SmsAction(to_number, message) :
        to_number \in {NoKey, "", "+34600000001"}, message \in {NoKey, "", "Recordatorio"}}

SmsConfigs ==
    { WorkerConfig(FALSE, 0, 0, DEFAULT_RATE_LIMIT, SHORT_DEDUP_TTL, DEFAULT_MAX_RETRIES,
                   "twilio", SmsActions, SmsJobs, SmsJobs) }

InitSms == InitWith(SmsConfigs)

NextSms ==
    \/ Produce
    \/ RunOnceStep
    \/ Tick

SpecSms == InitSms /\ [][NextSms]_vars

MissingParams(action) ==
    \/ action.to_number \in {NoKey, ""}
    \/ action.message \in {NoKey, ""}

\* C33: given an action without to_number or message, the SMS adapter returns
\* a failure result with error_code MISSING_PARAMS and does not raise, and the
\* worker schedules no retry for the action: nothing is added to the retry
\* set or the DLQ and no action_retry_scheduled or action_dead_lettered event
\* is emitted.
C33_MissingParamsNotRetried ==
    /\ \A c \in calls :
          MissingParams(c.action) =>
              /\ c.outcome = "MISSING_PARAMS"
              /\ \A i \in EventsOfJob(c.job) :
                    events[i].event_type \notin
                        {"action_retry_scheduled", "action_dead_lettered", "action_failed"}
    /\ \A z \in retry : ~MissingParams(z.member)
    /\ \A i \in DOMAIN dlq : ~MissingParams(dlq[i])

\* the adapter was called with an action that has a message but no to_number,
\* and the job ended with the failure result in its action_executed event
C33_Witness ==
    \E c \in calls :
        /\ c.action.to_number = NoKey
        /\ c.action.message = "Recordatorio"
        /\ \E i \in EventsOfJob(c.job) :
              /\ events[i].event_type = "action_executed"
              /\ events[i].payload.result = "MISSING_PARAMS"
        /\ \A w \in Workers : wrk[w].job # c.job

-----------------------------------------------------------------------------
(* What a blocked job leaves behind (SpecOrder) *)

\* the checks evaluated for job j in this step
NewChecks(j) ==
    SubSeq(jobs'[j].checked,
           (IF j \in DOMAIN jobs THEN Len(jobs[j].checked) ELSE 0) + 1,
           Len(jobs'[j].checked))

\* C34: a job blocked by the missing-adapter check, the consent rail or the
\* quiet-hours rail leaves the (patient_id, channel) rate window and the
\* (appointment_id, channel) dedup marker unchanged, a job blocked by the
\* rate-limit rail leaves the dedup marker unchanged, and none of these
\* blocked jobs changes the retry set or the DLQ.
C34_BlockedJobFrame ==
    [][\A j \in DOMAIN jobs' :
          LET new == NewChecks(j)
              reason == new[Len(new)].reason
          IN  new # <<>> =>
                 /\ (\A k \in DOMAIN new : new[k].check \in {"adapter", "consent"}) =>
                       rate' = rate /\ sent' = sent
                 /\ reason \in {"no_adapter", "no_consent", "no_patient_id", "quiet_hours"} =>
                       rate' = rate /\ sent' = sent /\ retry' = retry /\ dlq' = dlq
                 /\ reason = "rate_limited" =>
                       sent' = sent /\ retry' = retry /\ dlq' = dlq]_vars

\* with a rate window and a dedup marker in place, one job was blocked by the
\* quiet hours and one by the rate limit
C34_Witness ==
    /\ rate # {}
    /\ sent # {}
    /\ \E j, k \in DOMAIN jobs :
          /\ Finished(j) /\ Finished(k)
          /\ \E c \in calls : c.job < j /\ c.job < k
          /\ jobs[j].checked[Len(jobs[j].checked)].reason = "quiet_hours"
          /\ jobs[k].checked[Len(jobs[k].checked)].reason = "rate_limited"

-----------------------------------------------------------------------------
(* Merge webhook: deliveries whose event-store append or queue push raises.
   Correctly signed merged-PR deliveries D1 and D2 and their redeliveries, at
   an app with a Redis client *)

DeliveryRequests ==
    {Request("pull_request", SignatureHeader("sha256=", WEBHOOK_SECRET, MergedBody),
             d, MergedBody) : d \in {"D1", "D2"}}

WriteFaults == SUBSET {"append", "rpush"}

DeliveryApps ==
    {[WebhookApp(WEBHOOK_SECRET, TRUE, DeliveryRequests, MaxDeliveries)
        EXCEPT !.raises = faults] : faults \in WriteFaults}

InitDelivery == InitApps({NoWorker}, DeliveryApps, {NoOrchestrator})

NextDelivery ==
    \/ Receive
    \/ Process

SpecDelivery == InitDelivery /\ [][NextDelivery]_vars

\* delivery i is correctly signed, passes the filter and set the marker of
\* its delivery id
MarkerSetBy(i) ==
    /\ web.log[i].was_new
    /\ _verify_signature(web.log[i].req.body, web.log[i].secret, web.log[i].req.signature)
    /\ filter(web.log[i].req.event, web.log[i].req.body) = None

\* C35: if a correctly signed merged-PR delivery with id D passes the filter
\* and its idempotency marker is set, an execute_plan job for it is enqueued
\* once its handler has finished; so whenever a redelivery of D is answered
\* "duplicate", the delivery that set the marker is still being handled or
\* has enqueued its job, even if its event-store append or queue push raised.
C35_AcceptedNotLostClaim ==
    /\ \A i \in Deliveries :
          MarkerSetBy(i) /\ web.log[i].status # 0 => web.log[i].pushed
    /\ \A k \in Deliveries :
          Duplicate(k) =>
             \E i \in 1..(k - 1) :
                /\ web.log[i].req.delivery = web.log[k].req.delivery
                /\ web.log[i].was_new
                /\ web.log[i].status = 0 \/ web.log[i].pushed

-----------------------------------------------------------------------------
(* Rate window: what one evaluation of the rate limit leaves in it. Limits
   -1, 0, 1 and 2, envelopes with, without and with an empty patient id *)

WindowJobs == 3

\* an envelope whose patient_id is the empty string
AnonymousAction == Envelope("execute_plan", "APT-200", "", "sms", NoKey)

WindowConfigs ==
    { WorkerConfig(FALSE, 0, 0, limit, DEFAULT_DEDUP_TTL, 1, "flaky",
                   {TestAction, AnonymousAction, WebhookAction}, WindowJobs, WindowJobs) :
        limit \in {-1, 0, 1, 2} }

InitWindow == InitWith(WindowConfigs)

NextWindow ==
    \/ Produce
    \/ RunOnceStep
    \/ Tick

SpecWindow == InitWindow /\ [][NextWindow]_vars

\* the entries of the (patient_id, channel) window that count at time t
WindowAt(zsets, patient_id, channel, t) ==
    {z \in RateKey(zsets, patient_id, channel) : z.member > t - cfg.rate_window}

\* this step evaluates the rate limit for the worker's job
RateEvaluated ==
    /\ wrk[TheWorker].pc = "rails"
    /\ \E k \in DOMAIN NewChecks(wrk[TheWorker].job) :
          NewChecks(wrk[TheWorker].job)[k].check = "rate_limit"

\* C36: every rate-limit evaluation for an action with non-empty patient_id
\* and limit > 0 adds one timestamp to the (patient_id, channel) window,
\* whatever it returns and whatever dedup and the adapter do afterwards; for
\* an empty patient_id or limit <= 0 the window is not touched.
C36_WindowCountsAttemptsClaim ==
    [][LET action == wrk[TheWorker].action
           patient_id == Get(action.patient_id, "")
           channel == Get(action.channel, "sms")
       IN  IF RateEvaluated /\ patient_id # "" /\ cfg.rate_limit > 0
           THEN Cardinality(WindowAt(rate', patient_id, channel, now))
                   = Cardinality(WindowAt(rate, patient_id, channel, now)) + 1
           ELSE rate' = rate]_vars

\* the window holds the timestamp of every evaluation, and only evaluations
\* for a patient id under a positive limit change it
C36_WindowHoldsAttempt ==
    [][LET action == wrk[TheWorker].action
           patient_id == Get(action.patient_id, "")
           channel == Get(action.channel, "sms")
       IN  IF RateEvaluated /\ patient_id # "" /\ cfg.rate_limit > 0
           THEN /\ [patient_id |-> patient_id, channel |-> channel, member |-> now]
                       \in rate'
                /\ WindowAt(rate, patient_id, channel, now) \subseteq rate'
           ELSE rate' = rate]_vars

-----------------------------------------------------------------------------
(* Dedup of actions without an appointment id: the merge webhook's envelope
   of a PR that names no appointment, an envelope without the field, and an
   envelope with an appointment id beside them *)

UnlinkedJobs == 3
UnlinkedDequeues == 3

\* an envelope without the appointment_id field
UnlinkedAction == Envelope("execute_plan", NoKey, "PAT-001", "sms", NoKey)

UnlinkedConfigs ==
    { WorkerConfig(FALSE, 0, 0, 0, DEFAULT_DEDUP_TTL, 1, "flaky",
                   {WebhookAction, UnlinkedAction, TestAction},
                   UnlinkedJobs, UnlinkedDequeues) }

InitUnlinked == InitWith(UnlinkedConfigs)

NextUnlinked ==
    \/ Produce
    \/ ProcessRetriesStep
    \/ RunOnceStep
    \/ Tick

SpecUnlinked == InitUnlinked /\ [][NextUnlinked]_vars

WithoutAppointment(action) == Get(action.appointment_id, "") = ""

\* C37: an action whose appointment_id is empty or absent is never blocked as
\* duplicate_action and sets no dedup marker, so each of several such actions
\* with the same channel reaches the adapter.
C37_DedupSkipped ==
    /\ \A k \in sent : k.appointment_id # ""
    /\ \A j \in DOMAIN jobs :
          WithoutAppointment(jobs[j].action) =>
             /\ \A n \in DOMAIN jobs[j].checked :
                   jobs[j].checked[n].reason # "duplicate_action"
             /\ Finished(j) => \E c \in calls : c.job = j

\* two jobs of the same envelope without an appointment id were handed to
\* the adapter within the dedup TTL, while the marker of another job is set
C37_Witness ==
    /\ sent # {}
    /\ \E i, j \in DOMAIN jobs :
          /\ i < j
          /\ jobs[i].action = jobs[j].action
          /\ WithoutAppointment(jobs[i].action)
          /\ jobs[j].at < jobs[i].at + cfg.dedup_ttl
          /\ \A n \in {i, j} : \E c \in calls : c.job = n /\ c.outcome = "ok"

-----------------------------------------------------------------------------
(* Retry entries of identical envelopes: two merges that name no appointment
   (PR 42 twice, or PR 42 and PR 43) at a worker whose adapter is down *)

TwinJobs == 2
TwinDequeues == 4

TwinConfigs ==
    { WorkerConfig(FALSE, 0, 0, 0, DEFAULT_DEDUP_TTL, max_retries, "down",
                   {WebhookAction, WebhookAction43}, TwinJobs, TwinDequeues) :
        max_retries \in {1, 2} }

InitTwin == InitWith(TwinConfigs)

NextTwin ==
    \/ Produce
    \/ ProcessRetriesStep
    \/ RunOnceStep
    \/ Tick

SpecTwin == InitTwin /\ [][NextTwin]_vars

\* the envelopes process_retries has put back into the main queue: those
\* waiting there and those dequeued since
PutBack ==
    Cardinality({i \in DOMAIN queue : RetryCountOf(queue[i]) > 0})
    + Cardinality({j \in DOMAIN jobs : RetryCountOf(jobs[j].action) > 0})

\* C38: each failed job keeps its own retry entry, also when the envelopes of
\* two failed jobs are byte-identical: the number of envelopes awaiting retry
\* equals the number of action_retry_scheduled events not yet promoted.
C38_OwnRetryEntryClaim ==
    Cardinality(retry) + PutBack
        = Cardinality(EventsOfType("action_retry_scheduled"))

-----------------------------------------------------------------------------
(* Merge webhook and worker together: the jobs the webhook enqueues and a
   job of the orchestrator's kind, at a worker with a consent store *)

MergeJobs == 1
MergeDequeues == 3
MergeDeliveries == 2

MergeBodies ==
    {MergedBody, Body("object", "closed", LinkedPr("true"), EXPECTED_REPO)}

MergeRequests ==
    {Request("pull_request", SignatureHeader("sha256=", WEBHOOK_SECRET, b),
             IF b = MergedBody THEN "D1" ELSE "D2", b) : b \in MergeBodies}

MergeApps == {WebhookApp(WEBHOOK_SECRET, TRUE, MergeRequests, MergeDeliveries)}

MergeConfigs ==
    { WorkerConfig(TRUE, 0, 0, DEFAULT_RATE_LIMIT, DEFAULT_DEDUP_TTL, 1, "up",
                   {TestAction}, MergeJobs, MergeDequeues) }

InitMerge == InitApps(MergeConfigs, MergeApps, {NoOrchestrator})

NextMerge ==
    \/ Produce
    \/ Receive
    \/ Process
    \/ RunOnceStep
    \/ grant("PAT-001", "sms")
    \/ grant("", "sms")

SpecMerge == InitMerge /\ [][NextMerge]_vars

\* the envelope of a job the merge webhook enqueued: execute_plan with a PR
\* number and no patient_id
FromWebhook(action) ==
    /\ action.action_type = "execute_plan"
    /\ action.pr_number # NoKey
    /\ action.patient_id = NoKey

\* C39: a job enqueued by the merge webhook is always blocked with
\* action_blocked{reason: no_patient_id} and never reaches the adapter when a
\* worker with a consent store processes it, whatever consent records exist.
C39_WebhookJobsBlocked ==
    \A j \in DOMAIN jobs :
        FromWebhook(jobs[j].action) /\ cfg.consent_store =>
           /\ jobs[j].checked = <<Checked("adapter", None),
                                  Checked("consent", "no_patient_id")>>
           /\ \A c \in calls : c.job # j
           /\ \E i \in EventsOfType("action_blocked") :
                 /\ events[i].job = j
                 /\ events[i].payload.reason = "no_patient_id"

\* two accepted merges, with and without an appointment id, were dequeued
\* while consent records existed, one of them under the empty patient id,
\* and a job with a patient id was executed
C39_Witness ==
    /\ \E c \in calls : c.action = TestAction /\ c.outcome = "ok"
    /\ \E r \in consent : r.patient_id = "" /\ is_active(r)
    /\ \E i, j \in DOMAIN jobs :
          /\ FromWebhook(jobs[i].action) /\ FromWebhook(jobs[j].action)
          /\ jobs[i].action.appointment_id = ""
          /\ jobs[j].action.appointment_id = "APT-100"
          /\ jobs[i].consent_seen = "active" \/ jobs[j].consent_seen = "active"

-----------------------------------------------------------------------------
(* Merge webhook: requests the idempotency gate does not apply to
   (SpecWebhook) *)

\* delivery i is correctly signed and parsed, and carries no delivery id or
\* reaches an app without a Redis client
Ungated(i) ==
    /\ ~Unsigned(i)
    /\ web.log[i].req.body.json # "invalid"
    /\ web.log[i].req.delivery = "" \/ ~web.redis

\* C40: a correctly signed merge-webhook request whose X-GitHub-Delivery
\* header is absent or empty, or that arrives when no queue client is
\* configured, skips the idempotency gate, writes no marker and is never
\* answered "duplicate", so every such merged-PR request emits its own
\* pr_merged event.
C40_GateNeedsDeliveryId ==
    /\ \A m \in web.markers : m.id # ""
    /\ ~web.redis => web.markers = {}
    /\ \A i \in Deliveries :
          Ungated(i) =>
             /\ ~web.log[i].was_new
             /\ ~Duplicate(i)
             /\ web.log[i].status # 0
                /\ filter(web.log[i].req.event, web.log[i].req.body) = None =>
                   /\ Accepted(i)
                   /\ Cardinality(MergedEvents(i)) = 1

\* at an app with a Redis client, three deliveries of the same merged-PR body
\* without a delivery id were accepted, each with its own pr_merged event
C40_Witness ==
    /\ web.redis
    /\ Len(web.log) = MaxDeliveries
    /\ \A i \in Deliveries :
          /\ Ungated(i)
          /\ Accepted(i)
          /\ MergedEvents(i) # {}
    /\ \A i, j \in Deliveries : web.log[i].req = web.log[j].req

====
